---- MODULE Spec2Model ----
(***************************************************************************)
(* Model of the OCR-text segmentation pipeline of AutoEval-AgenticAI:      *)
(* process_ocr_only (src/test_ocr_only.py) transcribes the pages of an     *)
(* answer sheet in order, joins the page texts with a blank line and hands *)
(* the text to OCREngine.parse_exam_output                                 *)
(* (src/backend/app/agents/ocr_agent_qwen.py), which scans the lines and   *)
(* builds the map from question number to answer text.                     *)
(*                                                                         *)
(* A Python str is modelled as a sequence of one-character strings, so     *)
(* that strip, split, join and the regular expression are computed on the  *)
(* characters.  A Python dict is modelled as a sequence of [k, v] records  *)
(* in insertion order.                                                     *)
(*                                                                         *)
(* Three specifications share the variables:                               *)
(*   Spec             one process_ocr_only call, from the PDF to the map;  *)
(*   SpecEngines      parse_exam_output running on two OCREngine instances *)
(*                    whose line steps interleave;                         *)
(*   SpecSubmissions  the Evaluate and Results steps of two                *)
(*                    Orchestrator.process_submission calls, which share   *)
(*                    the file llama_output.txt.                           *)
(***************************************************************************)
EXTENDS Integers, Sequences, FiniteSets, TLC

VARIABLES
    pdf_pages,          \* the document at pdf_path: for each page, the text written on it
    image_paths,        \* the sheet: for each page image, the text the OCR model reads on it
    pc,                 \* "pdf" | "ocr" | "scan" | "done": position in process_ocr_only
    all_ocr_texts,      \* test_ocr_only.py:28
    full_ocr_text,      \* test_ocr_only.py:35
    lines,              \* ocr_agent_qwen.py:189
    line_no,            \* position of the `for line in lines` loop (1-based)
    current_question,   \* ocr_agent_qwen.py:190
    current_answer,     \* ocr_agent_qwen.py:191
    structured_answers, \* ocr_agent_qwen.py:188
    student_answers,    \* test_ocr_only.py:38: the returned map
    engines,            \* per OCREngine instance: the frame of its parse_exam_output call
    results,            \* every (ocr_text, returned map) pair a call has returned
    submissions,        \* per process_submission call: its position and its values
    llama_output,       \* the file llama_output.txt at the project root
    uploaded_files,     \* main.py:40: file id -> {kind: path}
    http_response,      \* the answer to the last request of the API
    key_parse,          \* the frame of a parse_question_text call
    grading,            \* the frame of an evaluate_answers call
    result_parse,       \* the frame of a parse_llama_results call
    processing          \* the frame of an Orchestrator.process_submission call

vars == <<pdf_pages, image_paths, pc, all_ocr_texts, full_ocr_text, lines, line_no,
          current_question, current_answer, structured_answers, student_answers,
          engines, results, submissions, llama_output,
          uploaded_files, http_response, key_parse, grading, result_parse,
          processing>>

-----------------------------------------------------------------------------
(* Bounds of the model *)

\* longest sheet, in lines, of the exhaustively enumerated sheets
MaxLines == 3
\* most pages of an exhaustively enumerated sheet
MaxPages == 2
\* the calls of parse_exam_output one engine makes
MaxCalls == 2

-----------------------------------------------------------------------------
(* Python str operations, on sequences of characters *)

\* characters that str.strip() removes and the regex class \s matches
Whitespace == {" ", "\t", "\n", "\r"}

\* characters matched by the regex class \d
Digit == {"0", "1", "2", "3", "4", "5", "6", "7", "8", "9"}

\* the separator class [.)\s-] of the question regex
SeparatorChars == {".", ")", "-"} \cup Whitespace

\* None, as the value of current_question before the first label: group(1)
\* of the question regex is never empty, so the empty string is free
None == <<>>

RECURSIVE LStrip(_)
LStrip(s) ==
    IF s = <<>> THEN <<>>
    ELSE IF Head(s) \in Whitespace THEN LStrip(Tail(s))
    ELSE s

RECURSIVE RStrip(_)
RStrip(s) ==
    IF s = <<>> THEN <<>>
    ELSE IF s[Len(s)] \in Whitespace THEN RStrip(SubSeq(s, 1, Len(s) - 1))
    ELSE s

\* str.strip()
Strip(s) == RStrip(LStrip(s))

\* index of the first "\n" of s at or after p, or Len(s) + 1
RECURSIVE FindNewline(_, _)
FindNewline(s, p) ==
    IF p > Len(s) THEN Len(s) + 1
    ELSE IF s[p] = "\n" THEN p
    ELSE FindNewline(s, p + 1)

\* str.split("\n"): the empty string gives one empty line
RECURSIVE Split(_)
Split(s) ==
    LET n == FindNewline(s, 1)
    IN  IF n > Len(s) THEN <<s>>
        ELSE <<SubSeq(s, 1, n - 1)>> \o Split(SubSeq(s, n + 1, Len(s)))

\* sep.join(parts)
RECURSIVE Join(_, _)
Join(parts, sep) ==
    IF parts = <<>> THEN <<>>
    ELSE IF Len(parts) = 1 THEN parts[1]
    ELSE parts[1] \o sep \o Join(Tail(parts), sep)

\* first index at or after p whose character is not in S, or Len(s) + 1
RECURSIVE SkipWhile(_, _, _)
SkipWhile(s, p, S) ==
    IF p > Len(s) THEN Len(s) + 1
    ELSE IF s[p] \in S THEN SkipWhile(s, p + 1, S)
    ELSE p

DigitValue(c) ==
    CASE c = "0" -> 0 [] c = "1" -> 1 [] c = "2" -> 2 [] c = "3" -> 3 [] c = "4" -> 4
      [] c = "5" -> 5 [] c = "6" -> 6 [] c = "7" -> 7 [] c = "8" -> 8 [] c = "9" -> 9

\* int(digits)
RECURSIVE Value(_)
Value(digits) ==
    IF digits = <<>> THEN 0
    ELSE 10 * Value(SubSeq(digits, 1, Len(digits) - 1)) + DigitValue(digits[Len(digits)])

DigitChar(n) ==
    CASE n = 0 -> "0" [] n = 1 -> "1" [] n = 2 -> "2" [] n = 3 -> "3" [] n = 4 -> "4"
      [] n = 5 -> "5" [] n = 6 -> "6" [] n = 7 -> "7" [] n = 8 -> "8" [] n = 9 -> "9"

\* str(n), n >= 0
RECURSIVE Str(_)
Str(n) == IF n < 10 THEN <<DigitChar(n)>> ELSE Str(n \div 10) \o <<DigitChar(n % 10)>>

-----------------------------------------------------------------------------
(* dict operations, on sequences of [k, v] records in insertion order *)

Keys(d) == {d[j].k : j \in 1..Len(d)}

\* a d[k] = v that keeps the first value of a key already present
DictSetKeepFirst(d, k, v) ==
    IF k \in Keys(d) THEN d ELSE Append(d, [k |-> k, v |-> v])

\* a d[k] = v that moves a key already present to the end
DictSetMoveToEnd(d, k, v) ==
    LET notK(e) == e.k # k
    IN  Append(SelectSeq(d, notK), [k |-> k, v |-> v])

\* a d[k] = v that puts a new key in front of the others
DictSetPrepend(d, k, v) ==
    IF k \in Keys(d)
    THEN [j \in 1..Len(d) |-> IF d[j].k = k THEN [k |-> k, v |-> v] ELSE d[j]]
    ELSE <<[k |-> k, v |-> v]>> \o d

\* d[k] = v: a new key is appended, an existing key keeps its place and
\* gets the new value
DictSet(d, k, v) ==
    IF k \in Keys(d)
    THEN [j \in 1..Len(d) |-> IF d[j].k = k THEN [k |-> k, v |-> v] ELSE d[j]]
    ELSE Append(d, [k |-> k, v |-> v])

-----------------------------------------------------------------------------
(* OCREngine.ocr_handwriting *)

\* a transcription that reports a failure in the returned text
OcrHandwritingErrorText(page_text, ok) ==
    IF ok THEN Strip(page_text) ELSE <<"O", "C", "R", " ", "f", "a", "i", "l", "e", "d">>

\* the transcription of one page: the model's output stripped, or the empty
\* string when anything in the call raised
OcrHandwriting(page_text, ok) == IF ok THEN Strip(page_text) ELSE <<>>

-----------------------------------------------------------------------------
(* OCREngine.parse_exam_output *)

\* the regex with \w+ in place of \d+: letters count as a question number
WordChars == Digit \cup {"a", "b", "c", "d", "e", "f"}

MatchFromWordClass(line, start) ==
    LET p1 == SkipWhile(line, start, Whitespace)
        p2 == SkipWhile(line, p1, WordChars)
        p3 == SkipWhile(line, p2, SeparatorChars)
    IN  [matched |-> p2 > p1,
         group1  |-> SubSeq(line, p1, p2 - 1),
         group2  |-> SubSeq(line, p3, Len(line))]

\* re.match(r"^(?:Q|q)?\s*(\d+)[.)\s-]*(.*)$", line, re.IGNORECASE), tried
\* with the optional Q taken (start = 2) or skipped (start = 1): whitespace,
\* then the longest run of digits (group 1), then the longest run of
\* separator characters, then the rest of the line (group 2)
MatchFrom(line, start) ==
    LET p1 == SkipWhile(line, start, Whitespace)
        p2 == SkipWhile(line, p1, Digit)
        p3 == SkipWhile(line, p2, SeparatorChars)
    IN  [matched |-> p2 > p1,
         group1  |-> SubSeq(line, p1, p2 - 1),
         group2  |-> SubSeq(line, p3, Len(line))]

\* the regex without the optional marker: a line must start with its digits
QuestionMatchNoMarker(line) == MatchFrom(line, 1)

\* the regex engine takes the optional Q first and backtracks to skipping it
QuestionMatch(line) ==
    LET withQ == MatchFrom(line, 2)
    IN  IF line # <<>> /\ line[1] \in {"Q", "q"} /\ withQ.matched
        THEN withQ
        ELSE MatchFrom(line, 1)

\* a save that skips a block without text: its key never enters the map
SavePreviousNonEmpty(d, question, answer) ==
    IF question # None /\ Strip(Join(answer, <<" ">>)) # <<>>
    THEN DictSet(d, question, Strip(Join(answer, <<" ">>)))
    ELSE d

\* a save without the `is not None` test: str(None) becomes a key
SavePreviousAlways(d, question, answer) ==
    DictSet(d, IF question # None THEN question ELSE <<"N", "o", "n", "e">>,
            Strip(Join(answer, <<" ">>)))

\* "Save previous question if present": the open block is stored under its
\* question number, the buffered lines joined by one space and stripped
SavePrevious(d, question, answer) ==
    IF question # None
    THEN DictSet(d, question, Strip(Join(answer, <<" ">>)))
    ELSE d

\* current_answer = [remaining_text] if remaining_text else []
NewAnswer(remaining_text) ==
    IF remaining_text # <<>> THEN <<remaining_text>> ELSE <<>>

\* an assignment in place of the append: the buffer keeps the last line only
ContinueAnswerReset(answer, line) == <<line>>

\* current_answer.append(line)
ContinueAnswer(answer, line) == Append(answer, line)

\* the loop body numbering the questions by their count, len(structured) + 1,
\* in place of the label's digits
LoopBodySequential(st, raw) ==
    LET line == Strip(raw)
        question_match == QuestionMatch(line)
        saved == SavePrevious(st.structured_answers, st.current_question,
                              st.current_answer)
    IN  IF line = <<>> THEN st
        ELSE IF question_match.matched
        THEN [current_question   |-> Str(Len(saved) + 1),
              current_answer     |-> NewAnswer(Strip(question_match.group2)),
              structured_answers |-> saved]
        ELSE IF st.current_question # None
        THEN [st EXCEPT !.current_answer = ContinueAnswer(@, line)]
        ELSE st

\* the loop body with a running counter: a label gets the number after the
\* open question's, whatever digits it shows
LoopBodyRunningCounter(st, raw) ==
    LET line == Strip(raw)
        question_match == QuestionMatch(line)
    IN  IF line = <<>> THEN st
        ELSE IF question_match.matched
        THEN [current_question   |-> IF st.current_question = None THEN <<"1">>
                                     ELSE Str(Value(st.current_question) + 1),
              current_answer     |-> NewAnswer(Strip(question_match.group2)),
              structured_answers |-> SavePrevious(st.structured_answers,
                                                  st.current_question,
                                                  st.current_answer)]
        ELSE IF st.current_question # None
        THEN [st EXCEPT !.current_answer = ContinueAnswer(@, line)]
        ELSE st

\* the loop body keeping the text before the first label under question "0"
LoopBodyPreamble(st, raw) ==
    LET line == Strip(raw)
        question_match == QuestionMatch(line)
    IN  IF line = <<>> THEN st
        ELSE IF question_match.matched
        THEN [current_question   |-> question_match.group1,
              current_answer     |-> NewAnswer(Strip(question_match.group2)),
              structured_answers |-> SavePrevious(st.structured_answers,
                                                  st.current_question,
                                                  st.current_answer)]
        ELSE IF st.current_question # None
        THEN [st EXCEPT !.current_answer = ContinueAnswer(@, line)]
        ELSE [st EXCEPT !.current_question = <<"0">>, !.current_answer = <<line>>]

\* the loop body in which a blank line ends the open block
LoopBodyBlankCloses(st, raw) ==
    LET line == Strip(raw)
        question_match == QuestionMatch(line)
    IN  IF line = <<>>
        THEN [current_question   |-> None,
              current_answer     |-> <<>>,
              structured_answers |-> SavePrevious(st.structured_answers,
                                                  st.current_question,
                                                  st.current_answer)]
        ELSE IF question_match.matched
        THEN [current_question   |-> question_match.group1,
              current_answer     |-> NewAnswer(Strip(question_match.group2)),
              structured_answers |-> SavePrevious(st.structured_answers,
                                                  st.current_question,
                                                  st.current_answer)]
        ELSE IF st.current_question # None
        THEN [st EXCEPT !.current_answer = ContinueAnswer(@, line)]
        ELSE st

\* one iteration of `for line in lines`, on the scan state
\* st = [current_question, current_answer, structured_answers]
LoopBody(st, raw) ==
    LET line == Strip(raw)
        question_match == QuestionMatch(line)
    IN  IF line = <<>> THEN st
        ELSE IF question_match.matched
        THEN [current_question   |-> question_match.group1,
              current_answer     |-> NewAnswer(Strip(question_match.group2)),
              structured_answers |-> SavePrevious(st.structured_answers,
                                                  st.current_question,
                                                  st.current_answer)]
        ELSE IF st.current_question # None
        THEN [st EXCEPT !.current_answer = ContinueAnswer(@, line)]
        ELSE st

\* the scan state on entry to the loop
ScanInit ==
    [current_question |-> None, current_answer |-> <<>>, structured_answers |-> <<>>]

\* the loop over lines[from..], as a function
RECURSIVE ScanFrom(_, _, _)
ScanFrom(st, ls, from) ==
    IF from > Len(ls) THEN st
    ELSE ScanFrom(LoopBody(st, ls[from]), ls, from + 1)

\* parse_exam_output as a function of its argument
ParseExamOutput(ocr_text) ==
    LET st == ScanFrom(ScanInit, Split(ocr_text), 1)
    IN  SavePrevious(st.structured_answers, st.current_question, st.current_answer)

-----------------------------------------------------------------------------
(* The answer sheets the model is run on *)

\* "Q1) u": a Q-label with a remainder
LineQ1 == <<"Q", "1", ")", " ", "u">>
\* "Q5) v": a Q-label whose number is not the next in sequence
LineQ5 == <<"Q", "5", ")", " ", "v">>
\* "w": a line without a label
LineText == <<"w">>
\* " ": a whitespace-only line
LineBlank == <<" ">>
\* "a) f": a line that starts with a letter and a parenthesis
LineAlpha == <<"a", ")", " ", "f">>

CoreLines == {LineQ1, LineQ5, LineText, LineBlank, LineAlpha}

\* the pages of a document cut after the lines numbered in cuts, each page's
\* lines joined by newlines
RECURSIVE Paginate(_, _, _)
Paginate(doc, cuts, from) ==
    LET later == {c \in cuts : c >= from}
    IN  IF later = {}
        THEN <<Join(SubSeq(doc, from, Len(doc)), <<"\n">>)>>
        ELSE LET c == CHOOSE x \in later : \A y \in later : x <= y
             IN  <<Join(SubSeq(doc, from, c), <<"\n">>)>> \o Paginate(doc, cuts, c + 1)

\* every document of 1..MaxLines core lines, cut into 1..MaxPages pages
EnumeratedSheets ==
    UNION {
        {Paginate(doc, cuts, 1) :
            doc \in [1..n -> CoreLines],
            cuts \in {c \in SUBSET (1..(n - 1)) : Cardinality(c) < MaxPages}}
        : n \in 1..MaxLines}

\* ["Q1) answer one", "Q5) answer two"] on one page
CounterTrustSheet ==
    << <<"Q", "1", ")", " ", "a", "n", "s", "w", "e", "r", " ", "o", "n", "e", "\n",
         "Q", "5", ")", " ", "a", "n", "s", "w", "e", "r", " ", "t", "w", "o">> >>

\* ["Q1. What is gravity?", "It pulls objects down.", "", "Q2) Explain inertia",
\*  "Objects resist change."] on one page
EndToEndSheet ==
    << <<"Q", "1", ".", " ", "W", "h", "a", "t", " ", "i", "s", " ", "g", "r", "a", "v", "i", "t", "y", "?", "\n",
         "I", "t", " ", "p", "u", "l", "l", "s", " ", "o", "b", "j", "e", "c", "t", "s", " ", "d", "o", "w", "n", ".", "\n",
         "\n",
         "Q", "2", ")", " ", "E", "x", "p", "l", "a", "i", "n", " ", "i", "n", "e", "r", "t", "i", "a", "\n",
         "O", "b", "j", "e", "c", "t", "s", " ", "r", "e", "s", "i", "s", "t", " ", "c", "h", "a", "n", "g", "e", ".">> >>

\* page 1 = "Q1) start of answer", page 2 = "continuation of answer"
PageBreakSheet ==
    << <<"Q", "1", ")", " ", "s", "t", "a", "r", "t", " ", "o", "f", " ", "a", "n", "s", "w", "e", "r">>,
       <<"c", "o", "n", "t", "i", "n", "u", "a", "t", "i", "o", "n", " ", "o", "f", " ", "a", "n", "s", "w", "e", "r">> >>

\* ["a) first", "b) second", "c) third"] on one page
AlphabeticSheet ==
    << <<"a", ")", " ", "f", "i", "r", "s", "t", "\n",
         "b", ")", " ", "s", "e", "c", "o", "n", "d", "\n",
         "c", ")", " ", "t", "h", "i", "r", "d">> >>

\* ["Q1) u", "w", "Q1."] on one page: number 1 comes back on a label with
\* nothing after it
ReissuedSheet ==
    << <<"Q", "1", ")", " ", "u", "\n", "w", "\n", "Q", "1", ".">> >>

\* ["Q1) u", "ii) g"] on one page: a roman numeral under an open question
RomanSheet ==
    << <<"Q", "1", ")", " ", "u", "\n", "i", "i", ")", " ", "g">> >>

\* ["Q3: text"] on one page: a colon after the number
ColonSheet ==
    << <<"Q", "3", ":", " ", "t", "e", "x", "t">> >>

\* ["Question 3: text"] on one page: the marker word written out
QuestionWordSheet ==
    << <<"Q", "u", "e", "s", "t", "i", "o", "n", " ", "3", ":", " ", "t", "e", "x", "t">> >>

\* ["Q1. Newton's law"] on one page
PrioritySheet ==
    << <<"Q", "1", ".", " ", "N", "e", "w", "t", "o", "n", "'", "s", " ", "l", "a", "w">> >>

\* ["a) first", "b) second", "Q7) third"] on one page: a numeric label after
\* two lettered lines
LetterThenNumberSheet ==
    << <<"a", ")", " ", "f", "i", "r", "s", "t", "\n", "b", ")", " ", "s", "e", "c", "o", "n", "d", "\n", "Q", "7", ")", " ", "t", "h", "i", "r", "d">> >>

\* ["Q1) u", "Q5) v", "w", "Q1) x"] on one page: number 1 comes back after
\* number 5
ReemittedSheet ==
    << <<"Q", "1", ")", " ", "u", "\n", "Q", "5", ")", " ", "v", "\n", "w", "\n", "Q", "1", ")", " ", "x">> >>

\* page 1 = "Q1) u\nw", page 2 = "x\ny", page 3 = "z\nQ5) v"
OpenAcrossPagesSheet ==
    << <<"Q", "1", ")", " ", "u", "\n", "w">>,
       <<"x", "\n", "y">>,
       <<"z", "\n", "Q", "5", ")", " ", "v">> >>

\* ["Q1.", "Q2."] on one page: two labels with nothing after them
EmptyBlocksSheet ==
    << <<"Q", "1", ".", "\n", "Q", "2", ".">> >>

\* a document of no pages
EmptySheet == <<>>

ScenarioSheets ==
    {CounterTrustSheet, EndToEndSheet, PageBreakSheet, AlphabeticSheet,
     ReissuedSheet, RomanSheet, ColonSheet, QuestionWordSheet, PrioritySheet,
     LetterThenNumberSheet, ReemittedSheet, OpenAcrossPagesSheet,
     EmptyBlocksSheet, EmptySheet}

Sheets == EnumeratedSheets \cup ScenarioSheets

-----------------------------------------------------------------------------
(* process_ocr_only *)

\* a conversion that returns the page images last page first
ProcessPdfToImagesReversed(pages, ok) ==
    IF ok THEN [i \in 1..Len(pages) |-> pages[Len(pages) + 1 - i]] ELSE <<>>

\* the images of the first n pages, appended in the order of enumerate(images)
RECURSIVE SavePages(_, _)
SavePages(pages, n) ==
    IF n = 0 THEN <<>> ELSE Append(SavePages(pages, n - 1), pages[n])

\* process_pdf_to_images: one image per page, in page order; [] when the
\* conversion raised
ProcessPdfToImages(pages, ok) ==
    IF ok THEN SavePages(pages, Len(pages)) ELSE <<>>

\* the OCREngine instances that exist side by side
Engines == {"engine_a", "engine_b"}

\* an engine outside parse_exam_output: no frame
IdleEngine ==
    [pc |-> "idle", calls |-> 0, ocr_text |-> <<>>, lines |-> <<>>, line_no |-> 1,
     current_question |-> None, current_answer |-> <<>>,
     structured_answers |-> <<>>, returned |-> <<>>]

\* the process_submission calls that run side by side
Submissions == {"submission_a", "submission_b"}

\* a submission that has not been posted
IdleSubmission == [pc |-> "idle", response |-> <<>>, result_text |-> <<>>]

\* llama_output.txt does not exist
NoFile == [exists |-> FALSE, text |-> <<>>]

\* no engine is in a call and no submission is posted
OutsideIdle ==
    /\ engines = [e \in Engines |-> IdleEngine]
    /\ results = {}
    /\ submissions = [s \in Submissions |-> IdleSubmission]
    /\ llama_output = NoFile

\* a function that is not being called: no frame
NotCalled == [pc |-> "idle"]

\* the API has served no request and none of the other functions is called
ServiceIdle ==
    /\ uploaded_files = <<>>
    /\ http_response = NotCalled
    /\ key_parse = NotCalled
    /\ grading = NotCalled
    /\ result_parse = NotCalled
    /\ processing = NotCalled

ServiceUnchanged ==
    UNCHANGED <<uploaded_files, http_response, key_parse, grading, result_parse,
                processing>>

OutsideUnchanged ==
    /\ UNCHANGED <<engines, results, submissions, llama_output>>
    /\ ServiceUnchanged

Init ==
    /\ OutsideIdle
    /\ ServiceIdle
    /\ pdf_pages \in Sheets
    /\ image_paths = <<>>
    /\ pc = "pdf"
    /\ all_ocr_texts = <<>>
    /\ full_ocr_text = <<>>
    /\ lines = <<>>
    /\ line_no = 1
    /\ current_question = None
    /\ current_answer = <<>>
    /\ structured_answers = <<>>
    /\ student_answers = <<>>

ScanUnchanged ==
    UNCHANGED <<lines, line_no, current_question, current_answer,
                structured_answers, student_answers>>

\* image_paths = process_pdf_to_images(pdf_path)
ConvertPdf ==
    /\ pc = "pdf"
    /\ image_paths' = ProcessPdfToImages(pdf_pages, TRUE)
    /\ pc' = "ocr"
    /\ UNCHANGED <<pdf_pages, all_ocr_texts, full_ocr_text>>
    /\ ScanUnchanged
    /\ OutsideUnchanged

\* the conversion raised inside process_pdf_to_images: no page image
ConvertPdfFail ==
    /\ pc = "pdf"
    /\ image_paths' = ProcessPdfToImages(pdf_pages, FALSE)
    /\ pc' = "ocr"
    /\ UNCHANGED <<pdf_pages, all_ocr_texts, full_ocr_text>>
    /\ ScanUnchanged
    /\ OutsideUnchanged

\* one iteration of the page loop: the page is transcribed and appended
OcrPage ==
    /\ pc = "ocr"
    /\ Len(all_ocr_texts) < Len(image_paths)
    /\ all_ocr_texts' =
           Append(all_ocr_texts,
                  OcrHandwriting(image_paths[Len(all_ocr_texts) + 1], TRUE))
    /\ UNCHANGED <<pdf_pages, image_paths, pc, full_ocr_text>>
    /\ ScanUnchanged
    /\ OutsideUnchanged

\* one iteration of the page loop in which the OCR call raised inside
\* ocr_handwriting: the empty string is appended
OcrFail ==
    /\ pc = "ocr"
    /\ Len(all_ocr_texts) < Len(image_paths)
    /\ all_ocr_texts' =
           Append(all_ocr_texts,
                  OcrHandwriting(image_paths[Len(all_ocr_texts) + 1], FALSE))
    /\ UNCHANGED <<pdf_pages, image_paths, pc, full_ocr_text>>
    /\ ScanUnchanged
    /\ OutsideUnchanged

\* '\n\n'.join(all_ocr_texts), then the entry of parse_exam_output
Combine ==
    /\ pc = "ocr"
    /\ Len(all_ocr_texts) = Len(image_paths)
    /\ full_ocr_text' = Join(all_ocr_texts, <<"\n", "\n">>)
    /\ lines' = Split(full_ocr_text')
    /\ line_no' = 1
    /\ current_question' = ScanInit.current_question
    /\ current_answer' = ScanInit.current_answer
    /\ structured_answers' = ScanInit.structured_answers
    /\ pc' = "scan"
    /\ UNCHANGED <<pdf_pages, image_paths, all_ocr_texts, student_answers>>
    /\ OutsideUnchanged

ScanState ==
    [current_question   |-> current_question,
     current_answer     |-> current_answer,
     structured_answers |-> structured_answers]

\* the loop body applied to the line at line_no
Advance ==
    LET st == LoopBody(ScanState, lines[line_no])
    IN  /\ current_question' = st.current_question
        /\ current_answer' = st.current_answer
        /\ structured_answers' = st.structured_answers
        /\ line_no' = line_no + 1
        /\ UNCHANGED <<pdf_pages, image_paths, pc, all_ocr_texts, full_ocr_text,
                       lines, student_answers>>
        /\ OutsideUnchanged

AtLine == pc = "scan" /\ line_no <= Len(lines)

IsBlank(raw) == Strip(raw) = <<>>

IsLabel(raw) == ~IsBlank(raw) /\ QuestionMatch(Strip(raw)).matched

\* `if not line: continue`
ScanBlank == AtLine /\ IsBlank(lines[line_no]) /\ Advance

\* `if question_match:` a label line opens a block
ScanLabel == AtLine /\ IsLabel(lines[line_no]) /\ Advance

\* `elif current_question is not None:` the line joins the open block
ScanContinuation ==
    /\ AtLine
    /\ ~IsBlank(lines[line_no]) /\ ~IsLabel(lines[line_no])
    /\ current_question # None
    /\ Advance

\* neither branch: a line before the first label is dropped
ScanDiscard ==
    /\ AtLine
    /\ ~IsBlank(lines[line_no]) /\ ~IsLabel(lines[line_no])
    /\ current_question = None
    /\ Advance

\* after the loop: the open block is saved and the map returned
Finish ==
    /\ pc = "scan"
    /\ line_no > Len(lines)
    /\ structured_answers' =
           SavePrevious(structured_answers, current_question, current_answer)
    /\ student_answers' = structured_answers'
    /\ pc' = "done"
    /\ UNCHANGED <<pdf_pages, image_paths, all_ocr_texts, full_ocr_text, lines,
                   line_no, current_question, current_answer>>
    /\ OutsideUnchanged

Next ==
    \/ ConvertPdf
    \/ ConvertPdfFail
    \/ OcrPage
    \/ OcrFail
    \/ Combine
    \/ ScanBlank
    \/ ScanLabel
    \/ ScanContinuation
    \/ ScanDiscard
    \/ Finish

Spec == Init /\ [][Next]_vars

-----------------------------------------------------------------------------
(* parse_exam_output called on several engines at once *)

\* "Q1) u\nw"
TextOpenBlock == <<"Q", "1", ")", " ", "u", "\n", "w">>
\* "Q5) v\nQ1) x"
TextTwoLabels == <<"Q", "5", ")", " ", "v", "\n", "Q", "1", ")", " ", "x">>
\* "w\n\nQ1) u"
TextPreamble == <<"w", "\n", "\n", "Q", "1", ")", " ", "u">>

\* the texts the engines are given
EngineTexts == {TextOpenBlock, TextTwoLabels, TextPreamble}

\* process_ocr_only is not running
PipelineIdle ==
    /\ pdf_pages = EmptySheet
    /\ image_paths = <<>>
    /\ pc = "pdf"
    /\ all_ocr_texts = <<>>
    /\ full_ocr_text = <<>>
    /\ lines = <<>>
    /\ line_no = 1
    /\ current_question = None
    /\ current_answer = <<>>
    /\ structured_answers = <<>>
    /\ student_answers = <<>>

PipelineUnchanged ==
    UNCHANGED <<pdf_pages, image_paths, pc, all_ocr_texts, full_ocr_text, lines,
                line_no, current_question, current_answer, structured_answers,
                student_answers>>

\* an entry that starts from the map the engine returned last
EngineCallKeepsAnswers(es, e, text) ==
    [es EXCEPT ![e] =
        [pc |-> "scan", calls |-> @.calls + 1, ocr_text |-> text,
         lines |-> Split(text), line_no |-> 1,
         current_question   |-> ScanInit.current_question,
         current_answer     |-> ScanInit.current_answer,
         structured_answers |-> @.returned,
         returned |-> @.returned]]

\* the entry of parse_exam_output on engine e: a new frame with its own
\* structured_answers, lines, current_question and current_answer
EngineCall(es, e, text) ==
    [es EXCEPT ![e] =
        [pc |-> "scan", calls |-> @.calls + 1, ocr_text |-> text,
         lines |-> Split(text), line_no |-> 1,
         current_question   |-> ScanInit.current_question,
         current_answer     |-> ScanInit.current_answer,
         structured_answers |-> ScanInit.structured_answers,
         returned |-> @.returned]]

\* the scan state of the frame
FrameState(frame) ==
    [current_question   |-> frame.current_question,
     current_answer     |-> frame.current_answer,
     structured_answers |-> frame.structured_answers]

\* an iteration whose current_answer is one list for all the engines
EngineStepSharedAnswer(es, e) ==
    LET st == LoopBody(FrameState(es[e]), es[e].lines[es[e].line_no])
    IN  [x \in Engines |->
            IF x = e
            THEN [es[e] EXCEPT !.current_question = st.current_question,
                               !.current_answer = st.current_answer,
                               !.structured_answers = st.structured_answers,
                               !.line_no = @ + 1]
            ELSE IF es[x].pc = "scan"
                 THEN [es[x] EXCEPT !.current_answer = st.current_answer]
                 ELSE es[x]]

\* one iteration of `for line in lines` in the frame of engine e
EngineStep(es, e) ==
    LET st == LoopBody(FrameState(es[e]), es[e].lines[es[e].line_no])
    IN  [es EXCEPT ![e] =
            [@ EXCEPT !.current_question = st.current_question,
                      !.current_answer = st.current_answer,
                      !.structured_answers = st.structured_answers,
                      !.line_no = @ + 1]]

\* the map the frame of engine e returns
EngineAnswers(es, e) ==
    SavePrevious(es[e].structured_answers, es[e].current_question,
                 es[e].current_answer)

\* the end of the call on engine e: the open block is saved, the map is
\* returned and the frame is gone
EngineReturn(es, e) ==
    [es EXCEPT ![e] =
        [pc |-> "idle", calls |-> @.calls, ocr_text |-> @.ocr_text,
         lines |-> <<>>, line_no |-> 1,
         current_question |-> None, current_answer |-> <<>>,
         structured_answers |-> <<>>,
         returned |-> EngineAnswers(es, e)]]

InitEngines ==
    /\ PipelineIdle
    /\ ServiceIdle
    /\ engines = [e \in Engines |-> IdleEngine]
    /\ results = {}
    /\ submissions = [s \in Submissions |-> IdleSubmission]
    /\ llama_output = NoFile

\* engine e is given a text to segment
CallParse(e) ==
    /\ engines[e].pc = "idle"
    /\ engines[e].calls < MaxCalls
    /\ \E text \in EngineTexts : engines' = EngineCall(engines, e, text)
    /\ UNCHANGED <<results, submissions, llama_output>>
    /\ PipelineUnchanged
    /\ ServiceUnchanged

\* engine e consumes its next line
StepParse(e) ==
    /\ engines[e].pc = "scan"
    /\ engines[e].line_no <= Len(engines[e].lines)
    /\ engines' = EngineStep(engines, e)
    /\ UNCHANGED <<results, submissions, llama_output>>
    /\ PipelineUnchanged
    /\ ServiceUnchanged

\* engine e has consumed its lines and returns
ReturnParse(e) ==
    /\ engines[e].pc = "scan"
    /\ engines[e].line_no > Len(engines[e].lines)
    /\ engines' = EngineReturn(engines, e)
    /\ results' = results \cup {[ocr_text |-> engines[e].ocr_text,
                                 answers  |-> EngineAnswers(engines, e)]}
    /\ UNCHANGED <<submissions, llama_output>>
    /\ PipelineUnchanged
    /\ ServiceUnchanged

NextEngines ==
    \E e \in Engines :
        \/ CallParse(e)
        \/ StepParse(e)
        \/ ReturnParse(e)

SpecEngines == InitEngines /\ [][NextEngines]_vars

-----------------------------------------------------------------------------
(* Orchestrator.process_submission, steps "Evaluate" and "Results", called
   for several submissions at once *)

\* "Q1: Right"
ResponseRight == <<"Q", "1", ":", " ", "R", "i", "g", "h", "t">>
\* "Q1: Wrong - no\n"
ResponseWrong == <<"Q", "1", ":", " ", "W", "r", "o", "n", "g", " ", "-", " ", "n", "o", "\n">>

\* what ollama.chat may answer
LlmResponses == {ResponseRight, ResponseWrong}

\* f.write(text) at offset 0 of a file that holds old: the characters of old
\* beyond the written ones stay
WriteAtStart(old, text) ==
    text \o SubSeq(old, Len(text) + 1, Len(old))

\* what parse_llama_results reads: the stripped text of the file, or nothing
\* when the file does not exist
ReadOutput(file) == IF file.exists THEN Strip(file.text) ELSE <<>>

EnginesIdle ==
    /\ engines = [e \in Engines |-> IdleEngine]
    /\ results = {}

InitSubmissions ==
    /\ PipelineIdle
    /\ ServiceIdle
    /\ EnginesIdle
    /\ submissions = [s \in Submissions |-> IdleSubmission]
    /\ llama_output = NoFile

SubmissionStep ==
    /\ PipelineUnchanged
    /\ ServiceUnchanged
    /\ UNCHANGED <<engines, results>>

\* process_submission reaches `await asyncio.to_thread(evaluate_answers, ...)`
StartEvaluation(s) ==
    /\ submissions[s].pc = "idle"
    /\ submissions' = [submissions EXCEPT ![s].pc = "evaluate"]
    /\ UNCHANGED llama_output
    /\ SubmissionStep

\* ollama.chat answers: result_text = response['message']['content'].strip()
EvaluateChat(s) ==
    /\ submissions[s].pc = "evaluate"
    /\ \E response \in LlmResponses :
           submissions' = [submissions EXCEPT ![s].pc = "open",
                                              ![s].response = Strip(response)]
    /\ UNCHANGED llama_output
    /\ SubmissionStep

\* ollama.chat raises: evaluate_answers returns False and the submission
\* ends with status "failed"
EvaluateFail(s) ==
    /\ submissions[s].pc = "evaluate"
    /\ submissions' = [submissions EXCEPT ![s].pc = "failed"]
    /\ UNCHANGED llama_output
    /\ SubmissionStep

\* open(output_file, 'w'): the file exists and is empty
OpenOutput(s) ==
    /\ submissions[s].pc = "open"
    /\ llama_output' = [exists |-> TRUE, text |-> <<>>]
    /\ submissions' = [submissions EXCEPT ![s].pc = "write"]
    /\ SubmissionStep

\* f.write(result_text) and the end of the with block; evaluate_answers
\* returns True
WriteOutput(s) ==
    /\ submissions[s].pc = "write"
    /\ llama_output' =
           [llama_output EXCEPT !.text = WriteAtStart(@, submissions[s].response)]
    /\ submissions' = [submissions EXCEPT ![s].pc = "parse"]
    /\ SubmissionStep

\* parse_llama_results(): the evaluation is parsed from what the file holds
ParseLlamaResults(s) ==
    /\ submissions[s].pc = "parse"
    /\ submissions' = [submissions EXCEPT ![s].pc = "done",
                                          ![s].result_text = ReadOutput(llama_output)]
    /\ UNCHANGED llama_output
    /\ SubmissionStep

NextSubmissions ==
    \E s \in Submissions :
        \/ StartEvaluation(s)
        \/ EvaluateChat(s)
        \/ EvaluateFail(s)
        \/ OpenOutput(s)
        \/ WriteOutput(s)
        \/ ParseLlamaResults(s)

SpecSubmissions == InitSubmissions /\ [][NextSubmissions]_vars

-----------------------------------------------------------------------------
(* Vocabulary of the properties: the document as the scan sees it *)

Scanning == pc \in {"scan", "done"}

\* the lines the loop has consumed so far
Consumed == IF Scanning THEN line_no - 1 ELSE 0

\* every page was transcribed without a failure
AllPagesRead ==
    /\ Len(all_ocr_texts) = Len(image_paths)
    /\ \A j \in 1..Len(image_paths) : all_ocr_texts[j] = Strip(image_paths[j])

\* positions of the lines that the scan accepts as labels
LabelPositions(upto) == {p \in 1..upto : IsLabel(lines[p])}

Max(S) == CHOOSE x \in S : \A y \in S : y <= x

\* the last label line among the first upto lines (0 if there is none)
LastLabel(upto) ==
    IF LabelPositions(upto) = {} THEN 0 ELSE Max(LabelPositions(upto))

\* the digits a line shows first, read off the line itself: the literal
\* number of a label
RECURSIVE FirstNumber(_)
FirstNumber(line) ==
    IF line = <<>> THEN <<>>
    ELSE IF Head(line) \in Digit
         THEN SubSeq(line, 1, SkipWhile(line, 1, Digit) - 1)
         ELSE FirstNumber(Tail(line))

\* the keys of a map, in insertion order
KeySeq(d) == [j \in 1..Len(d) |-> d[j].k]

-----------------------------------------------------------------------------
(* C1: numbering of the accepted labels *)

-----------------------------------------------------------------------------
(* Vocabulary of the properties: the blocks of the document *)

AllLabels == LabelPositions(Len(lines))

\* the literal number of the label at line p
IdOf(p) == FirstNumber(lines[p])

\* the text that follows the label on line p
Remainder(p) == Strip(QuestionMatch(Strip(lines[p])).group2)

\* the position of the next label after line p, or one past the last line
NextLabelAfter(p) ==
    LET later == {q \in AllLabels : q > p}
    IN  IF later = {} THEN Len(lines) + 1
        ELSE CHOOSE x \in later : \A y \in later : x <= y

\* the non-blank lines among lines[from..to], stripped, in document order
RECURSIVE ContentLines(_, _)
ContentLines(from, to) ==
    IF from > to THEN <<>>
    ELSE (IF IsBlank(lines[from]) THEN <<>> ELSE <<Strip(lines[from])>>)
         \o ContentLines(from + 1, to)

\* the content of the block opened at label p, as far as line upto: the
\* remainder of the label line if it is not empty, then the continuation lines
BlockLinesUpTo(p, upto) ==
    (IF Remainder(p) # <<>> THEN <<Remainder(p)>> ELSE <<>>)
    \o ContentLines(p + 1, upto)

BlockLines(p) == BlockLinesUpTo(p, NextLabelAfter(p) - 1)

\* the last label of the document that carries the number k
LastWithId(k) == Max({p \in AllLabels : IdOf(p) = k})

\* s[j] <= s[j+1] for the numeric values of a sequence of digit strings
NonDecreasing(s) == \A j \in 1..(Len(s) - 1) : Value(s[j]) <= Value(s[j + 1])

-----------------------------------------------------------------------------
(* C2: the answer text of a question *)

\* the map the end-to-end scenario is claimed to yield
EndToEndClaimed ==
    << [k |-> <<"1">>,
        v |-> <<"W", "h", "a", "t", " ", "i", "s", " ", "g", "r", "a", "v", "i", "t", "y", "?", "\n",
                "I", "t", " ", "p", "u", "l", "l", "s", " ", "o", "b", "j", "e", "c", "t", "s", " ", "d", "o", "w", "n", ".">>],
       [k |-> <<"2">>,
        v |-> <<"E", "x", "p", "l", "a", "i", "n", " ", "i", "n", "e", "r", "t", "i", "a", "\n",
                "O", "b", "j", "e", "c", "t", "s", " ", "r", "e", "s", "i", "s", "t", " ", "c", "h", "a", "n", "g", "e", ".">>] >>

\* C2 as claimed: the text stored for a question is the label's remainder (if
\* not empty) followed by the block's non-blank continuation lines, joined by
\* newline characters and trimmed; the end-to-end scenario yields the two
\* two-line answers.
C2_NewlineJoined ==
    pc = "done" =>
        /\ \A j \in 1..Len(student_answers) :
               student_answers[j].v =
                   Strip(Join(BlockLines(LastWithId(student_answers[j].k)), <<"\n">>))
        /\ (image_paths = EndToEndSheet /\ AllPagesRead) =>
               student_answers = EndToEndClaimed

-----------------------------------------------------------------------------
(* C3: an open block across a page boundary *)

\* C3 as claimed: the page boundary is transparent to the scan (the map is the
\* one obtained from the pages' lines taken as one page, so lines at the start
\* of a page continue the question open at the end of the page before), and
\* page 1 = "Q1) start of answer", page 2 = "continuation of answer" yield the
\* single entry "1" -> "start of answer\ncontinuation of answer".
C3_PageBreak ==
    pc = "done" =>
        /\ student_answers = ParseExamOutput(Join(all_ocr_texts, <<"\n">>))
        /\ (image_paths = PageBreakSheet /\ AllPagesRead) =>
               student_answers =
                   << [k |-> <<"1">>,
                       v |-> <<"s", "t", "a", "r", "t", " ", "o", "f", " ", "a", "n", "s", "w", "e", "r", "\n",
                               "c", "o", "n", "t", "i", "n", "u", "a", "t", "i", "o", "n", " ", "o", "f", " ", "a", "n", "s", "w", "e", "r">>] >>

-----------------------------------------------------------------------------
(* C4: the order of the identifiers *)

RECURSIVE LiteralsFrom(_, _)
LiteralsFrom(from, upto) ==
    IF from > upto THEN <<>>
    ELSE (IF IsLabel(lines[from]) THEN <<IdOf(from)>> ELSE <<>>)
         \o LiteralsFrom(from + 1, upto)

-----------------------------------------------------------------------------
(* C5: lines that start with a letter *)

Alphabet ==
    <<"a", "b", "c", "d", "e", "f", "g", "h", "i", "j", "k", "l", "m",
      "n", "o", "p", "q", "r", "s", "t", "u", "v", "w", "x", "y", "z">>

\* a single letter, or a lowercase roman numeral, followed by ')' or '.'
IsAlphaLabel(line) ==
    \/ /\ Len(line) >= 2
       /\ \E i \in 1..Len(Alphabet) : Alphabet[i] = line[1]
       /\ line[2] \in {")", "."}
    \/ LET e == SkipWhile(line, 1, {"i", "v", "x"})
       IN  e > 1 /\ e <= Len(line) /\ line[e] \in {")", "."}

\* a -> 1, b -> 2, ...
Ordinal(c) == CHOOSE i \in 1..Len(Alphabet) : Alphabet[i] = c

LetterLineStep ==
    (AtLine /\ IsAlphaLabel(Strip(lines[line_no]))) =>
        /\ current_question' = current_question
        /\ structured_answers' = structured_answers
        /\ current_answer' =
               IF current_question = None THEN current_answer
               ELSE Append(current_answer, Strip(lines[line_no]))

-----------------------------------------------------------------------------
(* C6: content before the first label *)

\* t occurs in v as a contiguous run of characters
IsSubstring(t, v) ==
    \E i \in 0..(Len(v) - Len(t)) : SubSeq(v, i + 1, i + Len(t)) = t

\* the position of the first label, or one past the last line
FirstLabel ==
    IF AllLabels = {} THEN Len(lines) + 1
    ELSE CHOOSE x \in AllLabels : \A y \in AllLabels : x <= y

\* C6: the non-blank lines before the first recognized label create no key
\* (every key is the number of a label line) and appear in no value of the
\* map (checked for the lines whose text does not occur again from the first
\* label on, where it may be attributed).
C6_PreLabelDiscarded ==
    pc = "done" =>
        /\ \A j \in 1..Len(student_answers) :
               \E p \in AllLabels : student_answers[j].k = IdOf(p)
        /\ \A p \in 1..(FirstLabel - 1) :
               (/\ ~IsBlank(lines[p])
                /\ \A q \in FirstLabel..Len(lines) :
                       ~IsSubstring(Strip(lines[p]), lines[q]))
               => \A j \in 1..Len(student_answers) :
                      ~IsSubstring(Strip(lines[p]), student_answers[j].v)

\* a document that begins with an unlabeled line and goes on to a label has
\* been scanned, and the map has an entry
C6_Witness ==
    /\ pc = "done"
    /\ FirstLabel > 1
    /\ ~IsBlank(lines[1])
    /\ student_answers # <<>>

-----------------------------------------------------------------------------
(* C7: one key per identifier, the later block wins *)

\* C7: no key occurs twice in the map, and the value of each key is the
\* content of the last block of the document that carries the key's number,
\* not that of an earlier block and not a merge of the blocks.
C7_LaterReplaces ==
    /\ Scanning => Cardinality(Keys(structured_answers)) = Len(structured_answers)
    /\ pc = "done" =>
           \A j \in 1..Len(student_answers) :
               /\ \E p \in AllLabels : student_answers[j].k = IdOf(p)
               /\ student_answers[j].v =
                      Strip(Join(BlockLines(LastWithId(student_answers[j].k)), <<" ">>))

\* two labels with the same number and different content have been scanned
C7_Witness ==
    /\ pc = "done"
    /\ Len(student_answers) = 1
    /\ \E p, q \in AllLabels :
           /\ p < q
           /\ IdOf(p) = IdOf(q)
           /\ BlockLines(p) # BlockLines(q)
           /\ BlockLines(p) # <<>>

-----------------------------------------------------------------------------
(* C8: blank lines *)

\* C8: a blank line never changes the scan state. After every prefix of the
\* document the scan state is the one reached on the prefix with its blank
\* lines removed, no value of the map holds a blank line, and the returned
\* map is the map of the document without its blank lines.
C8_BlankTransparent ==
    Scanning =>
        /\ pc = "scan" =>
               ScanState = ScanFrom(ScanInit, ContentLines(1, Consumed), 1)
        /\ \A j \in 1..Len(structured_answers) :
               \/ structured_answers[j].v = <<>>
               \/ \A seg \in {Split(structured_answers[j].v)[i] :
                                 i \in 1..Len(Split(structured_answers[j].v))} :
                      ~IsBlank(seg)
        /\ pc = "done" =>
               student_answers =
                   ParseExamOutput(Join(ContentLines(1, Len(lines)), <<"\n">>))

\* a blank line has just been consumed while a block with content is open
C8_Witness ==
    /\ pc = "scan"
    /\ Consumed >= 1
    /\ IsBlank(lines[Consumed])
    /\ current_question # None
    /\ current_answer # <<>>

-----------------------------------------------------------------------------
(* C9: continuation lines *)

\* C9: after the first accepted label, the open question is the number of the
\* most recently accepted label and its buffer holds exactly the label's
\* remainder followed by the non-blank lines consumed since, each once and in
\* document order; a continuation line leaves the open question as it is.
C9_ContinuationAttribution ==
    (Scanning /\ LastLabel(Consumed) # 0) =>
        /\ current_question = QuestionMatch(Strip(lines[LastLabel(Consumed)])).group1
        /\ current_answer = BlockLinesUpTo(LastLabel(Consumed), Consumed)

\* a continuation line has just been appended to a block that already had
\* content
C9_Witness ==
    /\ pc = "scan"
    /\ Consumed >= 2
    /\ ~IsBlank(lines[Consumed]) /\ ~IsLabel(lines[Consumed])
    /\ LastLabel(Consumed) # 0
    /\ Len(current_answer) >= 2

-----------------------------------------------------------------------------
(* C10: documents with no label or one label *)

\* C10: the scan never leaves its control flow (the loop index stays within
\* the lines, every step is one of the loop's branches), a document with no
\* recognizable label yields the empty map, and a document with exactly one
\* accepted label yields a map with exactly one entry.
C10_NeverRaises ==
    /\ pc \in {"pdf", "ocr", "scan", "done"}
    /\ pc = "ocr" => Len(all_ocr_texts) <= Len(image_paths)
    /\ pc = "scan" => line_no \in 1..(Len(lines) + 1)
    /\ pc = "done" =>
           /\ AllLabels = {} => student_answers = <<>>
           /\ Cardinality(AllLabels) = 1 => Len(student_answers) = 1

\* a document with text but no label has been scanned to the end
C10_Witness ==
    /\ pc = "done"
    /\ AllLabels = {}
    /\ \E p \in 1..Len(lines) : ~IsBlank(lines[p])
    /\ student_answers = <<>>

-----------------------------------------------------------------------------
(* C11: the numeric label rule *)

\* s starts with the characters of word
StartsWith(s, word) ==
    Len(s) >= Len(word) /\ SubSeq(s, 1, Len(word)) = word

QuestionWord == <<"Q", "u", "e", "s", "t", "i", "o", "n">>

\* the separators the rule names
ClaimedSeparators == {".", ")", ":", "-"}

\* the numeric rule as stated: an optional marker word "Question" or "Q", a
\* digit sequence, an optional separator; the remainder is what follows
ClaimedNumericLabel(line) ==
    LET afterWord == IF StartsWith(line, QuestionWord) THEN Len(QuestionWord) + 1
                     ELSE IF StartsWith(line, <<"Q">>) THEN 2
                     ELSE 1
        digitsAt  == SkipWhile(line, afterWord, Whitespace)
        digitsEnd == SkipWhile(line, digitsAt, Digit)
        sepAt     == SkipWhile(line, digitsEnd, Whitespace)
        restAt    == IF sepAt <= Len(line) /\ line[sepAt] \in ClaimedSeparators
                     THEN sepAt + 1 ELSE digitsEnd
    IN  [matched   |-> digitsEnd > digitsAt,
         digits    |-> SubSeq(line, digitsAt, digitsEnd - 1),
         remainder |-> Strip(SubSeq(line, restAt, Len(line)))]

\* C11 as claimed: a line made of an optional marker word "Q" or "Question",
\* a digit sequence and an optional separator from '.', ')', ':', '-' opens
\* the question of that digit sequence, and its remainder is exactly the text
\* after the separator: once such a line is consumed, the open question is
\* its number and the open block holds its remainder only ("Q3: text" and
\* "Question 3: text" both open question 3 with remainder "text").
C11_MarkerAndSeparator ==
    (Scanning /\ Consumed >= 1
              /\ ClaimedNumericLabel(Strip(lines[Consumed])).matched) =>
        LET label == ClaimedNumericLabel(Strip(lines[Consumed]))
        IN  /\ current_question = label.digits
            /\ current_answer = NewAnswer(label.remainder)

-----------------------------------------------------------------------------
(* C12: a Q followed by digits *)

\* the line begins with "Q" and a digit
BeginsWithQDigits(line) ==
    Len(line) >= 2 /\ line[1] = "Q" /\ line[2] \in Digit

\* the digits that follow the Q
DigitsAfterQ(line) == SubSeq(line, 2, SkipWhile(line, 2, Digit) - 1)

\* the text after the digits and the separator characters that follow them
TextAfterQDigits(line) ==
    Strip(SubSeq(line,
                 SkipWhile(line, SkipWhile(line, 2, Digit), SeparatorChars),
                 Len(line)))

\* C12: a line beginning with "Q" followed by digits is always taken as a
\* numeric label, never as a lettered line or as text: once it is consumed
\* the open question is the digit string after the Q and the open block holds
\* only the text after the separator; "Q1. Newton's law" yields identifier
\* "1" with remainder "Newton's law".
C12_LabelPriority ==
    /\ (Scanning /\ Consumed >= 1
                 /\ BeginsWithQDigits(Strip(lines[Consumed]))) =>
           /\ IsLabel(lines[Consumed])
           /\ current_question = DigitsAfterQ(Strip(lines[Consumed]))
           /\ current_answer = NewAnswer(TextAfterQDigits(Strip(lines[Consumed])))
    /\ (pc = "done" /\ image_paths = PrioritySheet /\ AllPagesRead) =>
           student_answers =
               << [k |-> <<"1">>,
                   v |-> <<"N", "e", "w", "t", "o", "n", "'", "s", " ", "l", "a", "w">>] >>

\* "Q1. Newton's law" has been consumed and opened question 1
C12_Witness ==
    /\ pc = "scan"
    /\ image_paths = PrioritySheet
    /\ Consumed = 1
    /\ BeginsWithQDigits(Strip(lines[Consumed]))
    /\ current_question = <<"1">>
    /\ current_answer = << <<"N", "e", "w", "t", "o", "n", "'", "s", " ", "l", "a", "w">> >>

-----------------------------------------------------------------------------
(* C13: the running counter *)

\* a single letter followed by ')' or '.'
IsLetterLabel(line) ==
    /\ Len(line) >= 2
    /\ \E i \in 1..Len(Alphabet) : Alphabet[i] = line[1]
    /\ line[2] \in {")", "."}

\* the counter as claimed, after the first upto lines: a lettered label with
\* ordinal k sets it to max(counter, k), a numeric label raises it by 1
RECURSIVE ClaimedCounter(_)
ClaimedCounter(upto) ==
    IF upto = 0 THEN 0
    ELSE LET counter == ClaimedCounter(upto - 1)
             line    == Strip(lines[upto])
         IN  IF IsLabel(lines[upto]) THEN counter + 1
             ELSE IF IsLetterLabel(line)
                  THEN IF Ordinal(line[1]) > counter THEN Ordinal(line[1])
                       ELSE counter
             ELSE counter

QuestionChangeStep ==
    (current_question' # current_question) =>
        /\ AtLine
        /\ IsLabel(lines[line_no])
        /\ current_question' = FirstNumber(lines[line_no])

-----------------------------------------------------------------------------
(* C14: every block is saved *)

\* C14: the open block is saved to the map when the next label is accepted
\* and when the input ends. During the scan the number of every label before
\* the last one consumed is a key of the map; after the scan the number of
\* every accepted label is a key of the returned map, and a label whose block
\* has no remainder and no continuation lines maps to the empty string.
C14_EveryBlockSaved ==
    /\ Scanning =>
           \A p \in LabelPositions(Consumed) :
               p < LastLabel(Consumed) => IdOf(p) \in Keys(structured_answers)
    /\ pc = "done" =>
           \A p \in AllLabels :
               /\ IdOf(p) \in Keys(student_answers)
               /\ (p = LastWithId(IdOf(p)) /\ BlockLines(p) = <<>>) =>
                      \E j \in 1..Len(student_answers) :
                          /\ student_answers[j].k = IdOf(p)
                          /\ student_answers[j].v = <<>>
    /\ (pc = "done" /\ image_paths = EmptyBlocksSheet /\ AllPagesRead) =>
           student_answers = << [k |-> <<"1">>, v |-> <<>>],
                                [k |-> <<"2">>, v |-> <<>>] >>

\* ["Q1.", "Q2."] has been scanned: both blocks are empty, the first was
\* saved when the second label was accepted and the second at the end
C14_Witness ==
    /\ pc = "done"
    /\ image_paths = EmptyBlocksSheet
    /\ AllPagesRead
    /\ AllLabels = {1, 2}
    /\ BlockLines(1) = <<>> /\ BlockLines(2) = <<>>
    /\ Keys(student_answers) = {<<"1">>, <<"2">>}

-----------------------------------------------------------------------------
(* C15: the order of the keys *)

\* s without the later occurrences of its elements
RECURSIVE FirstAppearances(_)
FirstAppearances(s) ==
    IF s = <<>> THEN <<>>
    ELSE LET front == FirstAppearances(SubSeq(s, 1, Len(s) - 1))
             last  == s[Len(s)]
         IN  IF \E j \in 1..Len(front) : front[j] = last
             THEN front ELSE Append(front, last)

\* C15: the keys of the map are in the order in which each identifier first
\* appears in the document, also when an identifier is emitted again later
\* and its content overwritten. After the scan the key sequence is the
\* sequence of the labels' identifiers without the later occurrences; during
\* the scan it is that of the labels before the last one consumed.
C15_FirstAppearanceOrder ==
    /\ Scanning =>
           KeySeq(structured_answers) =
               FirstAppearances(LiteralsFrom(1, IF pc = "done" THEN Len(lines)
                                                ELSE LastLabel(Consumed) - 1))
    /\ pc = "done" =>
           KeySeq(student_answers) = FirstAppearances(LiteralsFrom(1, Len(lines)))

\* ["Q1) u", "Q5) v", "w", "Q1) x"] has been scanned: number 1 came back
\* after number 5, its content was overwritten and it is still the first key
C15_Witness ==
    /\ pc = "done"
    /\ image_paths = ReemittedSheet
    /\ AllPagesRead
    /\ LiteralsFrom(1, Len(lines)) = << <<"1">>, <<"5">>, <<"1">> >>
    /\ student_answers = << [k |-> <<"1">>, v |-> <<"x">>],
                            [k |-> <<"5">>, v |-> <<"v", " ", "w">>] >>

-----------------------------------------------------------------------------
(* C16: the order of the pages *)

\* the lines of the first n transcriptions in page order, a blank line
\* between one page and the next
RECURSIVE LinesOfPages(_)
LinesOfPages(n) ==
    IF n = 0 THEN << <<>> >>
    ELSE IF n = 1 THEN Split(all_ocr_texts[1])
    ELSE LinesOfPages(n - 1) \o << <<>> >> \o Split(all_ocr_texts[n])

\* the conversion of the document to page images did not fail
Converted == pc # "pdf" /\ Len(image_paths) = Len(pdf_pages)

\* C16: pages are consumed strictly in page order. Page j's image is the
\* j-th image, the j-th transcription is that of page j (one per page, none
\* twice, none before an earlier page), and the text handed to the scan has
\* the lines of page i before the lines of page j whenever i < j.
C16_PageOrder ==
    /\ Converted => image_paths = pdf_pages
    /\ Len(all_ocr_texts) <= Len(image_paths)
    /\ \A j \in 1..Len(all_ocr_texts) :
           all_ocr_texts[j] \in {Strip(image_paths[j]), <<>>}
    /\ Scanning =>
           /\ Len(all_ocr_texts) = Len(image_paths)
           /\ lines = LinesOfPages(Len(all_ocr_texts))

\* the three pages of one document have been transcribed and assembled:
\* the six lines of the pages are in page order in the scanned text
C16_Witness ==
    /\ Scanning
    /\ pdf_pages = OpenAcrossPagesSheet
    /\ Converted
    /\ AllPagesRead
    /\ Len(all_ocr_texts) = 3
    /\ lines = << <<"Q", "1", ")", " ", "u">>, <<"w">>, <<>>,
                  <<"x">>, <<"y">>, <<>>,
                  <<"z">>, <<"Q", "5", ")", " ", "v">> >>

-----------------------------------------------------------------------------
(* C17: a page whose transcription fails *)

\* the transcription of page j failed: the page has text and none came back
PageFailed(j) ==
    /\ j \in 1..Len(all_ocr_texts)
    /\ Strip(image_paths[j]) # <<>>
    /\ all_ocr_texts[j] = <<>>

\* the transcriptions without those of the pages that gave no text
RECURSIVE PagesWithText(_)
PagesWithText(n) ==
    IF n = 0 THEN <<>>
    ELSE PagesWithText(n - 1)
         \o (IF all_ocr_texts[n] = <<>> THEN <<>> ELSE <<all_ocr_texts[n]>>)

\* the non-blank lines of ls, stripped, in order
RECURSIVE NonBlank(_)
NonBlank(ls) ==
    IF ls = <<>> THEN <<>>
    ELSE (IF Strip(Head(ls)) = <<>> THEN <<>> ELSE <<Strip(Head(ls))>>)
         \o NonBlank(Tail(ls))

\* C17: a page whose transcription fails is surfaced as the empty string and
\* contributes no content line. Every transcription is the page's text or
\* the empty string, the scan still runs to its end, the returned map is the
\* map of the same document without the failed pages, and a question open
\* across a failed page keeps its lines from both sides: with page 2 of
\* "Q1) u\nw" | "x\ny" | "z\nQ5) v" failed the map is "1" -> "u w z",
\* "5" -> "v".
C17_FailedPage ==
    /\ \A j \in 1..Len(all_ocr_texts) :
           all_ocr_texts[j] \in {Strip(image_paths[j]), <<>>}
    /\ Scanning =>
           ContentLines(1, Len(lines)) =
               NonBlank(Split(Join(PagesWithText(Len(all_ocr_texts)), <<"\n">>)))
    /\ pc = "done" =>
           student_answers =
               ParseExamOutput(Join(PagesWithText(Len(all_ocr_texts)),
                                    <<"\n", "\n">>))
    /\ (/\ pc = "done" /\ image_paths = OpenAcrossPagesSheet
        /\ ~PageFailed(1) /\ PageFailed(2) /\ ~PageFailed(3)) =>
           student_answers =
               << [k |-> <<"1">>, v |-> <<"u", " ", "w", " ", "z">>],
                  [k |-> <<"5">>, v |-> <<"v">>] >>

\* the second of three pages failed while question 1 was open, and the scan
\* has returned a map
C17_Witness ==
    /\ pc = "done"
    /\ image_paths = OpenAcrossPagesSheet
    /\ ~PageFailed(1) /\ PageFailed(2) /\ ~PageFailed(3)
    /\ all_ocr_texts[2] = <<>>
    /\ Len(student_answers) = 2

-----------------------------------------------------------------------------
(* C18: engines that scan at the same time *)

\* engine e is inside a call and has consumed at least one line
MidScan(e) == engines[e].pc = "scan" /\ engines[e].line_no > 1

\* C18: segmentation shares no mutable state between documents. Whatever the
\* order in which the engines' line steps are taken, the frame of an engine
\* in a call is the state of scanning its own lines alone up to its own
\* position, and the map an engine returns is the map of segmenting its text
\* alone ("Q1) u\nw" gives "1" -> "u w" whatever the other engine scans).
C18_NoSharedState ==
    \A e \in Engines :
        /\ engines[e].pc = "scan" =>
               FrameState(engines[e]) =
                   ScanFrom(ScanInit,
                            SubSeq(Split(engines[e].ocr_text), 1,
                                   engines[e].line_no - 1),
                            1)
        /\ (engines[e].pc = "idle" /\ engines[e].calls > 0) =>
               /\ engines[e].returned = ParseExamOutput(engines[e].ocr_text)
               /\ engines[e].ocr_text = TextOpenBlock =>
                      engines[e].returned =
                          << [k |-> <<"1">>, v |-> <<"u", " ", "w">>] >>

\* both engines are in the middle of their scans of different texts, each
\* with an open question of its own
C18_Witness ==
    /\ MidScan("engine_a") /\ MidScan("engine_b")
    /\ engines["engine_a"].ocr_text = TextOpenBlock
    /\ engines["engine_b"].ocr_text = TextTwoLabels
    /\ engines["engine_a"].current_answer = << <<"u">>, <<"w">> >>
    /\ engines["engine_b"].current_answer = << <<"v">> >>

-----------------------------------------------------------------------------
(* C19: the same text segmented again *)

\* C19: re-segmentation is deterministic. Two calls that were given the same
\* text have returned the same map, keys in the same order, whichever engine
\* ran them, whatever that engine segmented before and whatever the other
\* engine was scanning meanwhile.
C19_Deterministic ==
    \A r1 \in results : \A r2 \in results :
        r1.ocr_text = r2.ocr_text => r1.answers = r2.answers

\* "Q1) u\nw" has been segmented by both engines, by one of them after it
\* had segmented "Q5) v\nQ1) x", and both calls returned
C19_Witness ==
    /\ \A e \in Engines : engines[e].pc = "idle"
    /\ engines["engine_a"].calls = 2
    /\ engines["engine_b"].calls = 1
    /\ engines["engine_a"].ocr_text = TextOpenBlock
    /\ engines["engine_b"].ocr_text = TextOpenBlock
    /\ engines["engine_a"].returned = engines["engine_b"].returned
    /\ \E r \in results : r.ocr_text = TextTwoLabels

-----------------------------------------------------------------------------
(* C20: submissions evaluated at the same time *)

\* C20 as claimed: whatever the order in which the evaluate and parse steps
\* of two submissions interleave, the evaluation returned for a submission
\* is parsed from the LLM output that this submission's own evaluate step
\* wrote, never from the other submission's output.
C20_OwnOutput ==
    \A s \in Submissions :
        submissions[s].pc = "done" =>
            submissions[s].result_text = submissions[s].response

-----------------------------------------------------------------------------
(* The API: /upload/answer_sheet, /upload/question_key and /process *)

\* most files uploaded in one run of the model
MaxUploads == 3

\* every other variable of the model at rest
BackgroundIdle ==
    /\ PipelineIdle
    /\ EnginesIdle
    /\ submissions = [s \in Submissions |-> IdleSubmission]
    /\ llama_output = NoFile

BackgroundUnchanged ==
    /\ PipelineUnchanged
    /\ UNCHANGED <<engines, results, submissions, llama_output>>

\* the suffixes of the uploaded file names
Suffixes == {".pdf", ".PDF", ".png", ".docx", ".txt"}

\* str.lower() on a suffix
Lower(suffix) == IF suffix = ".PDF" THEN ".pdf" ELSE suffix

\* allowed_exts of upload_answer_sheet and of upload_question_key
AnswerSheetExts == {".pdf", ".jpg", ".jpeg", ".png"}
QuestionKeyExts == {".pdf", ".docx"}

\* the ids a /process request may name: those uuid4 has given out and one
\* that was never given out
FileIds == 0..MaxUploads

\* `file_id in uploaded_files`
IsUploaded(files, file_id) == \E j \in 1..Len(files) : files[j].k = file_id

\* uploaded_files[file_id]
FileEntry(files, file_id) ==
    (CHOOSE e \in {files[j] : j \in 1..Len(files)} : e.k = file_id).v

\* the HTTPException an endpoint raises for a request that fails its
\* validation: its status code, or 0 when the request passes
UploadValidation(suffix, allowed_exts) ==
    IF Lower(suffix) \notin allowed_exts THEN 400 ELSE 0

ProcessValidation(files, answer_sheet_id, question_key_id) ==
    IF ~IsUploaded(files, answer_sheet_id) THEN 404
    ELSE IF ~IsUploaded(files, question_key_id) THEN 404
    ELSE IF FileEntry(files, answer_sheet_id).kind # "answer_sheet" THEN 400
    ELSE IF FileEntry(files, question_key_id).kind # "question_key" THEN 400
    ELSE 0

\* `except Exception as e: raise HTTPException(status_code=500, ...)` around
\* the whole body of an endpoint: whatever was raised inside, the
\* HTTPException of a validation included, is answered with 500
ExceptHandler(raised) == 500

\* the status a request is answered with, given what its body raised
\* (0 = nothing: the body returned)
StatusOf(raised) == IF raised = 0 THEN 200 ELSE ExceptHandler(raised)

InitApi ==
    /\ BackgroundIdle
    /\ uploaded_files = <<>>
    /\ http_response = NotCalled
    /\ key_parse = NotCalled
    /\ grading = NotCalled
    /\ result_parse = NotCalled
    /\ processing = NotCalled

ApiStep ==
    /\ BackgroundUnchanged
    /\ UNCHANGED <<key_parse, grading, result_parse, processing>>

\* one upload request for a file kind: validation, then the file is saved
\* under a new uuid and registered in uploaded_files
Upload(kind, allowed_exts, suffix) ==
    LET raised  == UploadValidation(suffix, allowed_exts)
        file_id == Len(uploaded_files) + 1
    IN  /\ Len(uploaded_files) < MaxUploads
        /\ uploaded_files' =
               IF raised = 0
               THEN DictSet(uploaded_files, file_id,
                            [kind |-> kind, suffix |-> Lower(suffix)])
               ELSE uploaded_files
        /\ http_response' =
               [pc |-> "answered", endpoint |-> kind, validation |-> raised,
                status |-> StatusOf(raised),
                registered |-> uploaded_files' # uploaded_files]
        /\ ApiStep

\* POST /upload/answer_sheet
UploadAnswerSheet ==
    \E suffix \in Suffixes : Upload("answer_sheet", AnswerSheetExts, suffix)

\* POST /upload/question_key
UploadQuestionKey ==
    \E suffix \in Suffixes : Upload("question_key", QuestionKeyExts, suffix)

\* POST /process: validation of the two ids, then the orchestrator, whose
\* result is returned
ProcessRequest ==
    \E answer_sheet_id \in FileIds, question_key_id \in FileIds :
        LET raised == ProcessValidation(uploaded_files, answer_sheet_id,
                                        question_key_id)
        IN  /\ http_response' =
                   [pc |-> "answered", endpoint |-> "process",
                    validation |-> raised, status |-> StatusOf(raised),
                    registered |-> FALSE]
            /\ UNCHANGED uploaded_files
            /\ ApiStep

NextApi ==
    \/ UploadAnswerSheet
    \/ UploadQuestionKey
    \/ ProcessRequest

SpecApi == InitApi /\ [][NextApi]_vars

-----------------------------------------------------------------------------
(* C21: requests that fail validation *)

\* C21 as claimed: a request that fails an endpoint's validation is answered
\* with the status code of the HTTPException raised for it (400 for a file
\* extension that is not allowed, 404 for an id that is not in
\* uploaded_files, 400 for an id of a file of the wrong kind) and leaves
\* uploaded_files unchanged.
C21_ValidationStatus ==
    (http_response.pc = "answered" /\ http_response.validation # 0) =>
        /\ http_response.status = http_response.validation
        /\ ~http_response.registered

-----------------------------------------------------------------------------
(* result_agent.parse_llama_results: the regular expressions *)

UpperAlphabet ==
    <<"A", "B", "C", "D", "E", "F", "G", "H", "I", "J", "K", "L", "M",
      "N", "O", "P", "Q", "R", "S", "T", "U", "V", "W", "X", "Y", "Z">>

\* re.IGNORECASE: characters are compared in lower case
ToLower(c) ==
    IF \E i \in 1..Len(UpperAlphabet) : UpperAlphabet[i] = c
    THEN Alphabet[CHOOSE i \in 1..Len(UpperAlphabet) : UpperAlphabet[i] = c]
    ELSE c

LowerStr(s) == [j \in 1..Len(s) |-> ToLower(s[j])]

\* the regex class \w
IsWordChar(c) ==
    \/ \E i \in 1..Len(Alphabet) : Alphabet[i] = ToLower(c)
    \/ c \in Digit
    \/ c = "_"

\* the lower-case literal word matches at position p, case ignored
LiteralAt(line, p, word) ==
    /\ p >= 1
    /\ p + Len(word) - 1 <= Len(line)
    /\ LowerStr(SubSeq(line, p, p + Len(word) - 1)) = word

\* the regex assertion \b between positions p - 1 and p
WordBoundary(line, p) ==
    (p > 1 /\ p - 1 <= Len(line) /\ IsWordChar(line[p - 1]))
        # (p <= Len(line) /\ IsWordChar(line[p]))

\* re.search(r'\bword\b', line, re.IGNORECASE)
HasWord(line, word) ==
    \E p \in 1..Len(line) :
        /\ LiteralAt(line, p, word)
        /\ WordBoundary(line, p)
        /\ WordBoundary(line, p + Len(word))

\* the end of a match of \d+(?:\.\d+)? at position p (p itself: no match)
NumberEnd(line, p) ==
    LET e1 == SkipWhile(line, p, Digit)
    IN  IF e1 > p /\ e1 < Len(line) /\ line[e1] = "." /\ line[e1 + 1] \in Digit
        THEN SkipWhile(line, e1 + 1, Digit)
        ELSE e1

RECURSIVE Pow10(_)
Pow10(k) == IF k = 0 THEN 1 ELSE 10 * Pow10(k - 1)

\* float(text) for text matching \d+(?:\.\d+)?, as the fraction n / d
ParseFloat(text) ==
    LET dot == SkipWhile(text, 1, Digit)
    IN  IF dot > Len(text)
        THEN [n |-> Value(text), d |-> 1]
        ELSE [n |-> Value(SubSeq(text, 1, dot - 1) \o SubSeq(text, dot + 1, Len(text))),
              d |-> Pow10(Len(text) - dot)]

Zero == [n |-> 0, d |-> 1]
One == [n |-> 1, d |-> 1]

\* a / b on floats; ZeroDivisionError is caught and the score is a
Divide(a, b) ==
    IF b.n = 0 THEN a ELSE [n |-> a.n * b.d, d |-> a.d * b.n]

\* the match of \(Marks:?\s*(\d+(?:\.\d+)?)\) that starts at p
MarksInlineAt(line, p) ==
    LET colon == p + 6
        ws    == IF colon <= Len(line) /\ line[colon] = ":" THEN colon + 1 ELSE colon
        num   == SkipWhile(line, ws, Whitespace)
        close == NumberEnd(line, num)
    IN  [matched |-> /\ LiteralAt(line, p, <<"(", "m", "a", "r", "k", "s">>)
                     /\ close > num
                     /\ close <= Len(line)
                     /\ line[close] = ")",
         group1  |-> SubSeq(line, num, close - 1)]

\* re.search of the inline marks pattern: the leftmost match
MarksInline(line) ==
    LET at == {p \in 1..Len(line) : MarksInlineAt(line, p).matched}
    IN  IF at = {} THEN [matched |-> FALSE, group1 |-> <<>>]
        ELSE MarksInlineAt(line, CHOOSE p \in at : \A q \in at : p <= q)

\* the match of
\* (?:Marks Awarded|Score)\s*[:=]\s*(\d+(?:\.\d+)?)\s*(?:/\s*(\d+(?:\.\d+)?))?
\* that starts at p
AwardedAt(line, p) ==
    LET word    == IF LiteralAt(line, p, <<"m", "a", "r", "k", "s", " ", "a",
                                                 "w", "a", "r", "d", "e", "d">>)
                   THEN 13
                   ELSE IF LiteralAt(line, p, <<"s", "c", "o", "r", "e">>) THEN 5
                   ELSE 0
        sep     == SkipWhile(line, p + word, Whitespace)
        num1    == SkipWhile(line, sep + 1, Whitespace)
        end1    == NumberEnd(line, num1)
        slash   == SkipWhile(line, end1, Whitespace)
        num2    == SkipWhile(line, slash + 1, Whitespace)
        end2    == NumberEnd(line, num2)
        hasTwo  == slash <= Len(line) /\ line[slash] = "/" /\ end2 > num2
    IN  [matched |-> /\ word > 0
                     /\ sep <= Len(line)
                     /\ line[sep] \in {":", "="}
                     /\ end1 > num1,
         group1  |-> SubSeq(line, num1, end1 - 1),
         group2  |-> IF hasTwo THEN SubSeq(line, num2, end2 - 1) ELSE <<>>]

\* re.search of the awarded-marks pattern: the leftmost match
Awarded(line) ==
    LET at == {p \in 1..Len(line) : AwardedAt(line, p).matched}
    IN  IF at = {} THEN [matched |-> FALSE, group1 |-> <<>>, group2 |-> <<>>]
        ELSE AwardedAt(line, CHOOSE p \in at : \A q \in at : p <= q)

-----------------------------------------------------------------------------
(* result_agent.parse_llama_results: the block scan *)

\* longest LLM output, in lines, of the exhaustively enumerated outputs
MaxResultLines == 3

\* `line.startswith('Q') and ':' in line` on the stripped line
StartsWithQColon(raw) ==
    LET line == Strip(raw)
    IN  /\ line # <<>>
        /\ line[1] = "Q"
        /\ \E p \in 1..Len(line) : line[p] = ":"

\* re.match(r'Q(\d+)', line)
QNumMatch(line) ==
    [matched |-> Len(line) >= 2 /\ line[1] = "Q" /\ line[2] \in Digit,
     group1  |-> SubSeq(line, 2, SkipWhile(line, 2, Digit) - 1)]

\* an inner loop that also stops at a blank line
RECURSIVE BlockEndAtBlank(_, _)
BlockEndAtBlank(ls, j) ==
    IF j > Len(ls) THEN j
    ELSE IF StartsWithQColon(ls[j]) \/ Strip(ls[j]) = <<>> THEN j
    ELSE BlockEndAtBlank(ls, j + 1)

\* the inner while loop: the first index from j on whose line starts with
\* 'Q' and contains ':', or one past the last line
RECURSIVE BlockEnd(_, _)
BlockEnd(ls, j) ==
    IF j > Len(ls) THEN j
    ELSE IF StartsWithQColon(ls[j]) THEN j
    ELSE BlockEnd(ls, j + 1)

\* block_lines for the block ls[i..j-1]
BlockLinesOf(ls, i, j) == [k \in 1..(j - i) |-> Strip(ls[i + k - 1])]

NotFound == [found |-> FALSE, score |-> Zero, is_correct |-> FALSE]

\* the first loop over block_lines: the first line that holds an inline
\* marks annotation, else the word Right, else the word Wrong, decides
RECURSIVE FirstMarker(_, _)
FirstMarker(block_lines, k) ==
    IF k > Len(block_lines) THEN NotFound
    ELSE LET l == block_lines[k]
         IN  IF MarksInline(l).matched
             THEN [found |-> TRUE, score |-> ParseFloat(MarksInline(l).group1),
                   is_correct |-> ParseFloat(MarksInline(l).group1).n > 0]
             ELSE IF HasWord(l, <<"r", "i", "g", "h", "t">>)
             THEN [found |-> TRUE, score |-> One, is_correct |-> TRUE]
             ELSE IF HasWord(l, <<"w", "r", "o", "n", "g">>)
             THEN [found |-> TRUE, score |-> Zero, is_correct |-> FALSE]
             ELSE FirstMarker(block_lines, k + 1)

\* the second loop, run when the first found nothing: the first line with
\* 'Marks Awarded' or 'Score' decides; with none the score stays None and
\* becomes 0.0
RECURSIVE AwardedMarker(_, _)
AwardedMarker(block_lines, k) ==
    IF k > Len(block_lines) THEN NotFound
    ELSE LET m == Awarded(block_lines[k])
             score == IF m.group2 # <<>>
                      THEN Divide(ParseFloat(m.group1), ParseFloat(m.group2))
                      ELSE ParseFloat(m.group1)
         IN  IF m.matched
             THEN [found |-> TRUE, score |-> score, is_correct |-> score.n > 0]
             ELSE AwardedMarker(block_lines, k + 1)

\* the entry stored for a block
EvaluateBlock(block_lines) ==
    LET first  == FirstMarker(block_lines, 1)
        marker == IF first.found THEN first ELSE AwardedMarker(block_lines, 1)
    IN  [score          |-> marker.score,
         is_correct     |-> marker.is_correct,
         raw_evaluation |-> Strip(Join(block_lines, <<"\n">>))]

\* one iteration of `while i < len(lines)` on the frame; `blocks` is the
\* history of the blocks evaluated so far: the lines each one spans and its
\* q_num (the block's lines are evaluated once, as a value)
ScanIteration(frame) ==
    LET line    == Strip(frame.lines[frame.i])
        q_match == QNumMatch(line)
        j       == BlockEnd(frame.lines, frame.i + 1)
        q_num   == <<"Q">> \o q_match.group1
    IN  IF StartsWithQColon(frame.lines[frame.i]) /\ q_match.matched
        THEN [frame EXCEPT
                 !.evaluations =
                     CHOOSE d \in {DictSet(@, q_num, EvaluateBlock(block_lines)) :
                                       block_lines \in {BlockLinesOf(frame.lines,
                                                                     frame.i, j)}} : TRUE,
                 !.blocks = Append(@, [first |-> frame.i, last |-> j - 1,
                                       q_num |-> q_num]),
                 !.i = j]
        ELSE [frame EXCEPT !.i = @ + 1]

\* a / d + b / e
Add(a, b) == [n |-> a.n * b.d + b.n * a.d, d |-> a.d * b.d]

\* sum(float(v.get('score', 0)) for v in evaluations.values())
RECURSIVE TotalScore(_)
TotalScore(evaluations) ==
    IF evaluations = <<>> THEN Zero
    ELSE Add(TotalScore(SubSeq(evaluations, 1, Len(evaluations) - 1)),
             evaluations[Len(evaluations)].v.score)

\* "Q1: 2+2 - 4 - Right"
LineRight == <<"Q", "1", ":", " ", "2", "+", "2", " ", "-", " ", "4", " ", "-", " ", "R", "i", "g", "h", "t">>
\* "Q2: a right angle - 80 - Wrong"
LineWrongWithRight == <<"Q", "2", ":", " ", "a", " ", "r", "i", "g", "h", "t", " ", "a", "n", "g", "l", "e", " ", "-", " ", "8", "0", " ", "-", " ", "W", "r", "o", "n", "g">>
\* "Q1: g - 9 - wrong, redo"
LineWrong == <<"Q", "1", ":", " ", "g", " ", "-", " ", "9", " ", "-", " ", "w", "r", "o", "n", "g", ",", " ", "r", "e", "d", "o">>
\* "Q3: x - y (Marks: 0.5)"
LineMarks == <<"Q", "3", ":", " ", "x", " ", "-", " ", "y", " ", "(", "M", "a", "r", "k", "s", ":", " ", "0", ".", "5", ")">>
\* "Score = 3/4"
LineScore == <<"S", "c", "o", "r", "e", " ", "=", " ", "3", "/", "4">>
\* "Question: none"
LineQuestionWord == <<"Q", "u", "e", "s", "t", "i", "o", "n", ":", " ", "n", "o", "n", "e">>
\* "Q4: pending"
LinePending == <<"Q", "4", ":", " ", "p", "e", "n", "d", "i", "n", "g">>
\* " "
LineSpace == <<" ">>

ResultLines ==
    {LineRight, LineWrongWithRight, LineWrong, LineMarks, LineScore,
     LineQuestionWord, LinePending, LineSpace}

\* every LLM output of 1..MaxResultLines lines
ResultTexts ==
    UNION {{Join(doc, <<"\n">>) : doc \in [1..n -> ResultLines]}
           : n \in 1..MaxResultLines}

\* the state at the call of parse_llama_results, with no llama_output.txt or
\* with one of the given texts in it
InitResultsOn(texts) ==
    /\ PipelineIdle
    /\ EnginesIdle
    /\ submissions = [s \in Submissions |-> IdleSubmission]
    /\ llama_output \in {NoFile} \cup {[exists |-> TRUE, text |-> t] : t \in texts}
    /\ uploaded_files = <<>>
    /\ http_response = NotCalled
    /\ key_parse = NotCalled
    /\ grading = NotCalled
    /\ result_parse = [pc |-> "read", lines |-> <<>>, i |-> 1, evaluations |-> <<>>,
                       blocks |-> <<>>, total_score |-> Zero, max_score |-> 0]
    /\ processing = NotCalled

InitResults == InitResultsOn(ResultTexts)

ResultsStep ==
    /\ PipelineUnchanged
    /\ UNCHANGED <<engines, results, submissions, llama_output, uploaded_files,
                   http_response, key_parse, grading, processing>>

\* the file is missing or empty: the empty result is returned
ReadNothing ==
    /\ result_parse.pc = "read"
    /\ ReadOutput(llama_output) = <<>>
    /\ result_parse' = [result_parse EXCEPT !.pc = "done"]
    /\ ResultsStep

\* result_text = f.read().strip(); lines = result_text.split('\n'); i = 0
ReadResults ==
    /\ result_parse.pc = "read"
    /\ \E result_text \in {ReadOutput(llama_output)} :
           /\ result_text # <<>>
           /\ result_parse' = [result_parse EXCEPT !.pc = "scan",
                                                   !.lines = Split(result_text),
                                                   !.i = 1]
    /\ ResultsStep

\* one iteration of the while loop
ScanResults ==
    /\ result_parse.pc = "scan"
    /\ result_parse.i <= Len(result_parse.lines)
    /\ result_parse' = ScanIteration(result_parse)
    /\ ResultsStep

\* the loop is over: the totals are computed and the result returned (the
\* feedback texts added to each entry leave its score as it is)
ReturnResults ==
    /\ result_parse.pc = "scan"
    /\ result_parse.i > Len(result_parse.lines)
    /\ result_parse' = [result_parse EXCEPT
                           !.pc = "done",
                           !.total_score = TotalScore(result_parse.evaluations),
                           !.max_score = Len(result_parse.evaluations)]
    /\ ResultsStep

NextResults ==
    \/ ReadNothing
    \/ ReadResults
    \/ ScanResults
    \/ ReturnResults

SpecResults == InitResults /\ [][NextResults]_vars

-----------------------------------------------------------------------------
(* The verdict of a block in the requested format *)

\* the position after the last " - " of the line, 0 when there is none
RECURSIVE LastSeparator(_, _)
LastSeparator(line, p) ==
    IF p < 1 THEN 0
    ELSE IF LiteralAt(line, p, <<" ", "-", " ">>) THEN p + 3
    ELSE LastSeparator(line, p - 1)

\* the number of " - " in the line from position p on
RECURSIVE Separators(_, _)
Separators(line, p) ==
    IF p > Len(line) THEN 0
    ELSE (IF LiteralAt(line, p, <<" ", "-", " ">>) THEN 1 ELSE 0)
         + Separators(line, p + 1)

\* 'Qn: [Question text] - [Student's OCR text] - [verdict ...]'
InFormat(line) ==
    /\ QNumMatch(line).matched
    /\ SkipWhile(line, 2, Digit) <= Len(line)
    /\ line[SkipWhile(line, 2, Digit)] = ":"
    /\ Separators(line, 1) = 2

\* the letters of either case
Letters == {Alphabet[i] : i \in 1..Len(Alphabet)} \cup
           {UpperAlphabet[i] : i \in 1..Len(UpperAlphabet)}

\* the first word of the third field, in lower case
Verdict(line) ==
    LET from == LastSeparator(line, Len(line))
    IN  LowerStr(SubSeq(line, from, SkipWhile(line, from, Letters) - 1))

\* evaluations[q_num]
StoredEntry(evaluations, q_num) ==
    (CHOOSE e \in {evaluations[p] : p \in 1..Len(evaluations)} : e.k = q_num).v

\* C22 (stated of the block evaluated last, whose entry no later block of
\* the same number has replaced): every one-line block in the requested format without a '(Marks: k)'
\* annotation gets score 0.0 and is_correct False when its verdict is Wrong,
\* and score 1.0 and is_correct True when its verdict is Right, whatever
\* other words its fields contain
C22_VerdictDecides ==
    result_parse.blocks # <<>> =>
        LET block == result_parse.blocks[Len(result_parse.blocks)]
            line  == Strip(result_parse.lines[block.first])
            entry == StoredEntry(result_parse.evaluations, block.q_num)
        IN  (block.first = block.last /\ InFormat(line) /\ ~MarksInline(line).matched) =>
                /\ Verdict(line) = <<"w", "r", "o", "n", "g">> =>
                       entry.score = Zero /\ ~entry.is_correct
                /\ Verdict(line) = <<"r", "i", "g", "h", "t">> =>
                       entry.score = One /\ entry.is_correct

-----------------------------------------------------------------------------
(* Termination of the block scan *)

\* the scan looks at a line only to ask whether it starts with 'Q' and
\* contains ':' and whether it matches 'Q<digits>': one short line of each
\* kind, and a blank one
ScanLines == {<<"Q", "1", ":">>, <<"Q", ":">>, <<"x">>, <<" ">>}

\* every output of 1..MaxResultLines such lines
ScanTexts ==
    UNION {{Join(doc, <<"\n">>) : doc \in [1..n -> ScanLines]}
           : n \in 1..MaxResultLines}

InitScan == InitResultsOn(ScanTexts)

\* the function runs to its return: a started call keeps taking steps
SpecResultsFair ==
    /\ InitScan
    /\ [][NextResults]_vars
    /\ WF_vars(ReadNothing)
    /\ WF_vars(ReadResults)
    /\ WF_vars(ScanResults)
    /\ WF_vars(ReturnResults)

\* a line matching 'Q<digits>' that contains ':'
StartsBlock(raw) == StartsWithQColon(raw) /\ QNumMatch(Strip(raw)).matched

\* the blocks evaluated so far are disjoint and in line order, each starts at
\* a line that matches 'Q<digits>' and contains ':', holds no further line
\* that starts with 'Q' and contains ':', and stops right before such a line,
\* before the scan index, or at the last line
BlocksWellFormed ==
    LET blocks == result_parse.blocks
    IN  /\ \A b \in 1..Len(blocks) :
               /\ 1 <= blocks[b].first
               /\ blocks[b].first <= blocks[b].last
               /\ blocks[b].last < result_parse.i
               /\ StartsBlock(result_parse.lines[blocks[b].first])
               /\ \A k \in (blocks[b].first + 1)..blocks[b].last :
                      ~StartsWithQColon(result_parse.lines[k])
               /\ \/ blocks[b].last = Len(result_parse.lines)
                  \/ StartsWithQColon(result_parse.lines[blocks[b].last + 1])
        /\ \A b \in 1..(Len(blocks) - 1) : blocks[b].last < blocks[b + 1].first

\* every line before the scan index that matches 'Q<digits>' and contains ':'
\* is the first line of exactly one block
EveryHeaderStartsOneBlock ==
    \A k \in 1..Len(result_parse.lines) :
        (k < result_parse.i /\ StartsBlock(result_parse.lines[k])) =>
            Cardinality({b \in 1..Len(result_parse.blocks) :
                             result_parse.blocks[b].first = k}) = 1

\* every iteration moves the scan index forward
IndexIncreases ==
    (result_parse.pc = "scan" /\ result_parse'.pc = "scan") =>
        result_parse'.i > result_parse.i

\* C30: the block scan terminates for every output, its line index strictly
\* increases on every iteration, each line matching 'Q<digits>' and containing
\* ':' starts exactly one block, and a block extends up to but not including
\* the next line that starts with 'Q' and contains ':'
C30_ScanTerminates ==
    /\ [](BlocksWellFormed /\ EveryHeaderStartsOneBlock)
    /\ [][IndexIncreases]_vars
    /\ <>(result_parse.pc = "done")

\* the scan has returned after evaluating two blocks, the first of which
\* spans a header line and a continuation line
C30_Witness ==
    /\ result_parse.pc = "done"
    /\ Len(result_parse.blocks) = 2
    /\ result_parse.blocks[1].first = 1
    /\ result_parse.blocks[1].last = 2
    /\ result_parse.blocks[2].first = 3

-----------------------------------------------------------------------------
(* evaluation_agent_mistral.fallback_evaluate_answers and what
   parse_llama_results makes of a file *)

\* d.get(k, default)
Get(d, k, default) ==
    IF k \in Keys(d)
    THEN (CHOOSE e \in {d[p] : p \in 1..Len(d)} : e.k = k).v
    ELSE default

\* the block scan run to its end
RECURSIVE ScanAll(_)
ScanAll(frame) ==
    IF frame.i > Len(frame.lines) THEN frame
    ELSE CHOOSE done \in {ScanAll(next) : next \in {ScanIteration(frame)}} : TRUE

\* the 'evaluations' of the dict parse_llama_results returns for a file
ParsedEvaluations(file) ==
    IF ReadOutput(file) = <<>> THEN <<>>
    ELSE ScanAll([pc |-> "scan", lines |-> Split(ReadOutput(file)), i |-> 1,
                  evaluations |-> <<>>, blocks |-> <<>>,
                  total_score |-> Zero, max_score |-> 0]).evaluations

\* "No answer provided"
FeedbackNoAnswer == <<"N", "o", " ", "a", "n", "s", "w", "e", "r", " ", "p", "r", "o", "v", "i", "d", "e", "d">>
\* "Answer too brief - please provide more detail"
FeedbackBrief == <<"A", "n", "s", "w", "e", "r", " ", "t", "o", "o", " ", "b", "r", "i", "e", "f", " ", "-", " ", "p", "l", "e", "a", "s", "e", " ", "p", "r", "o", "v", "i", "d", "e", " ", "m", "o", "r", "e", " ", "d", "e", "t", "a", "i", "l">>
\* "Answer submitted - detailed evaluation requires AI grading"
FeedbackSubmitted == <<"A", "n", "s", "w", "e", "r", " ", "s", "u", "b", "m", "i", "t", "t", "e", "d", " ", "-", " ", "d", "e", "t", "a", "i", "l", "e", "d", " ", "e", "v", "a", "l", "u", "a", "t", "i", "o", "n", " ", "r", "e", "q", "u", "i", "r", "e", "s", " ", "A", "I", " ", "g", "r", "a", "d", "i", "n", "g">>
\* "Question not found in question key"
FeedbackNotInKey == <<"Q", "u", "e", "s", "t", "i", "o", "n", " ", "n", "o", "t", " ", "f", "o", "u", "n", "d", " ", "i", "n", " ", "q", "u", "e", "s", "t", "i", "o", "n", " ", "k", "e", "y">>
\* "Attempted to answer"
StrengthsAttempted == <<"A", "t", "t", "e", "m", "p", "t", "e", "d", " ", "t", "o", " ", "a", "n", "s", "w", "e", "r">>
\* "Provide more detailed response"
ImprovementsDetail == <<"P", "r", "o", "v", "i", "d", "e", " ", "m", "o", "r", "e", " ", "d", "e", "t", "a", "i", "l", "e", "d", " ", "r", "e", "s", "p", "o", "n", "s", "e">>

\* the entry the fallback stores for the question number q_num
FallbackEntry(q_num, answers, question_key) ==
    LET student_answer == Strip(Get(answers, q_num, <<>>))
        max_marks      == Get(question_key, <<"Q">> \o q_num, [marks |-> 0]).marks
    IN  IF (<<"Q">> \o q_num) \in Keys(question_key)
        THEN [in_key       |-> TRUE,
              score        |-> IF student_answer = <<>> THEN 0
                               ELSE IF Len(student_answer) < 10
                               THEN Max({1, max_marks \div 4})
                               ELSE max_marks \div 2,
              feedback     |-> IF student_answer = <<>> THEN FeedbackNoAnswer
                               ELSE IF Len(student_answer) < 10 THEN FeedbackBrief
                               ELSE FeedbackSubmitted,
              strengths    |-> IF student_answer # <<>> THEN StrengthsAttempted ELSE <<>>,
              improvements |-> IF Len(student_answer) < 20 THEN ImprovementsDetail
                               ELSE <<>>]
        ELSE [in_key |-> FALSE, score |-> 0, feedback |-> FeedbackNotInKey,
              strengths |-> <<>>, improvements |-> <<>>]

\* key[1:] for a key that starts with 'Q', else the key
QuestionNumber(q_key) ==
    IF q_key # <<>> /\ q_key[1] = "Q" THEN Tail(q_key) ELSE q_key

\* all_question_nums: the numbers of the key and of the student answers
AllQuestionNums(answers, question_key) ==
    {QuestionNumber(k) : k \in Keys(question_key)} \cup Keys(answers)

\* the orders in which a set may be iterated
Orders(S) ==
    {order \in [1..Cardinality(S) -> S] :
        \A a, b \in 1..Cardinality(S) : a # b => order[a] # order[b]}

\* the fallback's evaluations, filled in the given iteration order
FallbackEvaluations(order, answers, question_key) ==
    [j \in 1..Len(order) |->
        [k |-> order[j], v |-> FallbackEntry(order[j], answers, question_key)]]

\* sum(v.get('score', 0) for v in evaluations.values())
RECURSIVE SumScores(_)
SumScores(evaluations) ==
    IF evaluations = <<>> THEN 0
    ELSE evaluations[1].v.score + SumScores(Tail(evaluations))

\* sum(q.get('marks', 0) for q in question_key.values())
RECURSIVE SumMarks(_)
SumMarks(question_key) ==
    IF question_key = <<>> THEN 0
    ELSE question_key[1].v.marks + SumMarks(Tail(question_key))

Quoted(text) == <<"\"">> \o text \o <<"\"">>

\* the lines json.dump(..., indent=2) writes for one entry of evaluations
JsonEntry(e, last) ==
    <<  <<" ", " ", " ", " ">> \o Quoted(e.k) \o <<":", " ", "{">>,
        <<" ", " ", " ", " ", " ", " ">> \o Quoted(<<"s", "c", "o", "r", "e">>)
            \o <<":", " ">> \o Str(e.v.score) \o <<",">>,
        <<" ", " ", " ", " ", " ", " ">>
            \o Quoted(<<"f", "e", "e", "d", "b", "a", "c", "k">>)
            \o <<":", " ">> \o Quoted(e.v.feedback)
            \o (IF e.v.in_key THEN <<",">> ELSE <<>>) >>
    \o (IF e.v.in_key
        THEN << <<" ", " ", " ", " ", " ", " ">>
                    \o Quoted(<<"s", "t", "r", "e", "n", "g", "t", "h", "s">>)
                    \o <<":", " ">> \o Quoted(e.v.strengths) \o <<",">>,
                <<" ", " ", " ", " ", " ", " ">>
                    \o Quoted(<<"i", "m", "p", "r", "o", "v", "e", "m", "e", "n", "t", "s">>)
                    \o <<":", " ">> \o Quoted(e.v.improvements) >>
        ELSE <<>>)
    \o << <<" ", " ", " ", " ", "}">> \o (IF last THEN <<>> ELSE <<",">>) >>

RECURSIVE JsonEntries(_, _)
JsonEntries(evaluations, j) ==
    IF j > Len(evaluations) THEN <<>>
    ELSE JsonEntry(evaluations[j], j = Len(evaluations))
         \o JsonEntries(evaluations, j + 1)

\* the text json.dump(fallback_data, f, indent=2, ensure_ascii=False) writes
FallbackJson(evaluations, question_key) ==
    Join(
        << <<"{">> >>
        \o (IF evaluations = <<>>
            THEN << <<" ", " ">> \o Quoted(<<"e", "v", "a", "l", "u", "a", "t", "i", "o", "n", "s">>) \o <<":", " ", "{", "}", ",">> >>
            ELSE << <<" ", " ">> \o Quoted(<<"e", "v", "a", "l", "u", "a", "t", "i", "o", "n", "s">>) \o <<":", " ", "{">> >>
                 \o JsonEntries(evaluations, 1)
                 \o << <<" ", " ", "}", ",">> >>)
        \o << <<" ", " ">> \o Quoted(<<"t", "o", "t", "a", "l", "_", "s", "c", "o", "r", "e">>) \o <<":", " ">>
                  \o Str(SumScores(evaluations)) \o <<",">>,
              <<" ", " ">> \o Quoted(<<"m", "a", "x", "_", "s", "c", "o", "r", "e">>) \o <<":", " ">>
                  \o Str(SumMarks(question_key)),
              <<"}">> >>,
        <<"\n">>)

-----------------------------------------------------------------------------
(* Orchestrator.process_submission *)

\* values of str(uuid.uuid4())[:8]
SubmissionIds == {"1a2b3c4d", "9f8e7d6c"}

KeyEntry(marks) == [question |-> <<"q">>, ideal_answer |-> <<"a">>, marks |-> marks]

\* what parse_question_key may return as 'questions'; the empty key is also
\* what it returns when the document cannot be parsed
QuestionKeys ==
    {<<>>,
     <<[k |-> <<"Q", "1">>, v |-> KeyEntry(1)]>>,
     <<[k |-> <<"Q", "1">>, v |-> KeyEntry(2)], [k |-> <<"Q", "2">>, v |-> KeyEntry(5)]>>}

\* what process_ocr_only may return as 'questions'
StudentAnswerMaps ==
    {<<>>,
     <<[k |-> <<"1">>, v |-> <<"4">>]>>,
     <<[k |-> <<"1">>, v |-> <<"a", " ", "l", "o", "n", "g", " ", "e", "n", "o", "u", "g", "h", " ", "a", "n", "s", "w", "e", "r">>],
       [k |-> <<"3">>, v |-> <<>>]>>}

\* what the LLM may answer: "Q1: a - b - Right", "Q1: a - b - Wrong" with
\* "Q2: c - d - Right", both right, and "Q1: a - b (Marks: 2)"
LlmOutputs ==
    {<<"Q", "1", ":", " ", "a", " ", "-", " ", "b", " ", "-", " ", "R", "i", "g", "h", "t">>,
     <<"Q", "1", ":", " ", "a", " ", "-", " ", "b", " ", "-", " ", "W", "r", "o", "n", "g", "\n", "Q", "2", ":", " ", "c", " ", "-", " ", "d", " ", "-", " ", "R", "i", "g", "h", "t">>,
     <<"Q", "1", ":", " ", "a", " ", "-", " ", "b", " ", "-", " ", "R", "i", "g", "h", "t", "\n", "Q", "2", ":", " ", "c", " ", "-", " ", "d", " ", "-", " ", "R", "i", "g", "h", "t">>,
     <<"Q", "1", ":", " ", "a", " ", "-", " ", "b", " ", "(", "M", "a", "r", "k", "s", ":", " ", "2", ")">>}

NoResult ==
    [keys |-> {}, status |-> "", evaluation |-> <<>>, total_score |-> Zero, max_score |-> 0]

\* the call of process_submission, before its first statement
CallProcessing ==
    [pc |-> "extract", files |-> {}, trace |-> <<>>, student_answers |-> <<>>,
     question_key |-> <<>>, eval_success |-> FALSE, fallback |-> <<>>,
     parsed |-> FALSE, evaluations |-> <<>>, result |-> NoResult]

InitOrchestrator ==
    /\ BackgroundIdle
    /\ uploaded_files = <<>>
    /\ http_response = NotCalled
    /\ key_parse = NotCalled
    /\ grading = NotCalled
    /\ result_parse = NotCalled
    /\ processing = CallProcessing

OrchestratorStep ==
    /\ PipelineUnchanged
    /\ UNCHANGED <<engines, results, submissions, uploaded_files, http_response,
                   key_parse, grading, result_parse>>

\* except Exception as e: return {'error': str(e), 'status': 'failed'}
ExceptReturn(frame) ==
    [frame EXCEPT !.pc = "returned",
                  !.result = [NoResult EXCEPT !.keys = {"error", "status"},
                                              !.status = "failed"]]

\* raw text extraction from the two files; extract_text_from_pdf or
\* extract_text_from_docx may raise
ExtractRawText ==
    /\ processing.pc = "extract"
    /\ \E raises \in BOOLEAN :
           processing' = IF raises THEN ExceptReturn(processing)
                         ELSE [processing EXCEPT !.pc = "save_raw"]
    /\ UNCHANGED llama_output
    /\ OrchestratorStep

RawFiles == <<"raw_answer_sheet", "raw_question_key">>

ParsedFiles == <<"parsed_question_key", "parsed_student_answers", "ocr_output">>

\* the files <name>_<submission_id>.json for the first `written` names
FilesWritten(names, written, submission_id) ==
    {[name |-> names[j], id |-> submission_id] : j \in 1..written}

\* submission_id = str(uuid.uuid4())[:8] and the two raw files; an open or a
\* dump may raise after any number of them is written
SaveRawData ==
    /\ processing.pc = "save_raw"
    /\ \E submission_id \in SubmissionIds, written \in 0..Len(RawFiles) :
           LET saved == [processing EXCEPT
                            !.files = @ \cup FilesWritten(RawFiles, written, submission_id)]
           IN  processing' = IF written < Len(RawFiles) THEN ExceptReturn(saved)
                             ELSE [saved EXCEPT !.pc = "ocr"]
    /\ UNCHANGED llama_output
    /\ OrchestratorStep

\* from test_ocr_only import process_ocr_only; await to_thread(process_ocr_only):
\* the call returns the answers or re-raises what went wrong
RunOcr ==
    /\ processing.pc = "ocr"
    /\ \/ \E answers \in StudentAnswerMaps :
             processing' = [processing EXCEPT !.pc = "parse_key",
                                              !.student_answers = answers,
                                              !.trace = Append(@, "ocr")]
       \/ processing' = ExceptReturn(processing)
    /\ UNCHANGED llama_output
    /\ OrchestratorStep

\* the import of test_ocr_only imports ocr_agent_qwen, which calls sys.exit(1)
\* when torch, transformers or PIL cannot be imported: SystemExit is not an
\* Exception and leaves process_submission
OcrImportExits ==
    /\ processing.pc = "ocr"
    /\ processing' = [processing EXCEPT !.pc = "raised"]
    /\ UNCHANGED llama_output
    /\ OrchestratorStep

\* question_key_data = await to_thread(parse_question_key, ...)
ParseQuestionKey ==
    /\ processing.pc = "parse_key"
    /\ \E question_key \in QuestionKeys :
           processing' = [processing EXCEPT !.pc = "evaluate",
                                            !.question_key = question_key,
                                            !.trace = Append(@, "parse_key")]
    /\ UNCHANGED llama_output
    /\ OrchestratorStep

\* evaluate_answers with ollama installed: the chat answers and the answer
\* is written to llama_output.txt, or anything raises and False is returned
EvaluateAnswers ==
    /\ processing.pc = "evaluate"
    /\ \/ \E output \in LlmOutputs :
             /\ llama_output' = [exists |-> TRUE, text |-> Strip(output)]
             /\ processing' = [processing EXCEPT !.pc = "parse_results",
                                                 !.eval_success = TRUE,
                                                 !.trace = Append(@, "evaluate")]
       \/ /\ UNCHANGED llama_output
          /\ processing' = [processing EXCEPT !.pc = "no_results",
                                              !.eval_success = FALSE,
                                              !.trace = Append(@, "evaluate")]
    /\ OrchestratorStep

\* evaluate_answers with ollama not installed: fallback_evaluate_answers
\* dumps its evaluations as JSON to llama_output.txt and returns True
EvaluateFallback ==
    /\ processing.pc = "evaluate"
    /\ \E order \in Orders(AllQuestionNums(processing.student_answers,
                                           processing.question_key)) :
           \E evaluations \in {FallbackEvaluations(order, processing.student_answers,
                                                   processing.question_key)} :
               /\ llama_output' =
                      [exists |-> TRUE,
                       text |-> FallbackJson(evaluations, processing.question_key)]
               /\ processing' = [processing EXCEPT !.pc = "parse_results",
                                                   !.eval_success = TRUE,
                                                   !.fallback = evaluations,
                                                   !.trace = Append(@, "evaluate")]
    /\ OrchestratorStep

\* eval_data['score'] = actual_marks if eval_data.get('score', 0) == 1 else 0,
\* for the evaluations whose key is in question_key
ConvertScores(evaluations, question_key) ==
    [j \in 1..Len(evaluations) |->
        [k |-> evaluations[j].k,
         v |-> [score |-> IF evaluations[j].k \in Keys(question_key)
                          THEN IF evaluations[j].v.score.n = evaluations[j].v.score.d
                               THEN [n |-> Get(question_key, evaluations[j].k,
                                               KeyEntry(1)).marks, d |-> 1]
                               ELSE Zero
                          ELSE evaluations[j].v.score]]]

\* the dict assembled at `result = {...}`
ResultDict(eval_success, evaluations, question_key) ==
    [keys |-> {"subject", "raw_ocr", "student_answers", "parsed_question_key",
               "question_key", "evaluation", "total_score", "max_score", "status"},
     status |-> IF eval_success THEN "success" ELSE "failed",
     evaluation |-> evaluations,
     total_score |-> TotalScore(evaluations),
     max_score |-> SumMarks(question_key)]

\* a failed evaluation that is parsed all the same
NoResultsParsed(frame) ==
    [frame EXCEPT !.pc = "save_parsed",
                  !.parsed = TRUE,
                  !.trace = Append(@, "parse_results"),
                  !.result = ResultDict(FALSE, <<>>, frame.question_key)]

\* the else branch of `if eval_success`
NoResults(frame) ==
    [frame EXCEPT !.pc = "save_parsed",
                  !.result = ResultDict(FALSE, <<>>, frame.question_key)]

\* eval_success is False: evaluations = {}, total_score = 0, the result dict
SkipResults ==
    /\ processing.pc = "no_results"
    /\ processing' = NoResults(processing)
    /\ UNCHANGED llama_output
    /\ OrchestratorStep

\* eval_success is True: await to_thread(parse_llama_results), the score
\* conversion, the totals and the result dict
ParseResults ==
    /\ processing.pc = "parse_results"
    /\ \E evaluations \in {ConvertScores(ParsedEvaluations(llama_output),
                                         processing.question_key)} :
           processing' = [processing EXCEPT
                             !.pc = "save_parsed",
                             !.parsed = TRUE,
                             !.evaluations = evaluations,
                             !.trace = Append(@, "parse_results"),
                             !.result = ResultDict(TRUE, evaluations,
                                                   processing.question_key)]
    /\ UNCHANGED llama_output
    /\ OrchestratorStep

\* submission_id = str(uuid.uuid4())[:8], drawn again; the three parsed files,
\* then `return result`; an open or a dump may raise after any number of them
\* is written
SaveParsedData ==
    /\ processing.pc = "save_parsed"
    /\ \E submission_id \in SubmissionIds,
          written \in 0..Len(ParsedFiles) :
           LET saved == [processing EXCEPT
                            !.files = @ \cup FilesWritten(ParsedFiles, written,
                                                          submission_id)]
           IN  processing' = IF written < Len(ParsedFiles) THEN ExceptReturn(saved)
                             ELSE [saved EXCEPT !.pc = "returned"]
    /\ UNCHANGED llama_output
    /\ OrchestratorStep

NextOrchestrator ==
    \/ ExtractRawText
    \/ SaveRawData
    \/ RunOcr
    \/ OcrImportExits
    \/ ParseQuestionKey
    \/ EvaluateAnswers
    \/ EvaluateFallback
    \/ SkipResults
    \/ ParseResults
    \/ SaveParsedData

SpecOrchestrator == InitOrchestrator /\ [][NextOrchestrator]_vars

-----------------------------------------------------------------------------
(* The result of process_submission *)

\* C23: in the result of a successful process_submission every evaluated
\* question is a question of the key and its score is 0 or that question's
\* marks, and 0 <= total_score <= max_score, the sum of the key's marks
C23_ScoresWithinMarks ==
    (processing.pc = "returned" /\ processing.result.status = "success") =>
        /\ \A j \in 1..Len(processing.result.evaluation) :
               LET e == processing.result.evaluation[j]
               IN  /\ e.k \in Keys(processing.question_key)
                   /\ \/ e.v.score = Zero
                      \/ e.v.score = [n |-> Get(processing.question_key, e.k,
                                                KeyEntry(0)).marks, d |-> 1]
        /\ 0 <= processing.result.total_score.n
        /\ processing.result.total_score.n
               <= processing.result.max_score * processing.result.total_score.d

\* C24: when the fallback has written its evaluations to llama_output.txt,
\* evaluate_answers has returned True and parse_llama_results returns one
\* evaluation for every question of the fallback, with the fallback's score
C24_FallbackReadBack ==
    (processing.pc = "parse_results" /\ processing.fallback # <<>>) =>
        /\ processing.eval_success
        /\ LET parsed == ParsedEvaluations(llama_output)
           IN  /\ Len(parsed) = Len(processing.fallback)
               /\ \A j \in 1..Len(processing.fallback) :
                      \E p \in 1..Len(parsed) :
                          /\ parsed[p].k \in {processing.fallback[j].k,
                                              <<"Q">> \o processing.fallback[j].k}
                          /\ parsed[p].v.score =
                                 [n |-> processing.fallback[j].v.score, d |-> 1]

\* the four awaited calls in the order of the code
StepOrder == <<"ocr", "parse_key", "evaluate", "parse_results">>

IsPrefix(s, t) == Len(s) <= Len(t) /\ s = SubSeq(t, 1, Len(s))

\* evaluate_answers has returned
Evaluated == \E j \in 1..Len(processing.trace) : processing.trace[j] = "evaluate"

\* the call has returned the dict assembled at `result = {...}`
ReturnedResult ==
    processing.pc = "returned" /\ "evaluation" \in processing.result.keys

\* the calls are made in the order OCR, key parsing, evaluation, result
\* parsing, and parse_llama_results is called exactly when evaluate_answers
\* has returned True
StepsInOrder ==
    /\ IsPrefix(processing.trace, StepOrder)
    /\ processing.parsed => (Evaluated /\ processing.eval_success)
    /\ (Evaluated /\ ~processing.eval_success) => ~processing.parsed

\* the dict of `result = {...}` is assembled: the call is about to save the
\* parsed files or has returned the dict
ResultAssembled == processing.pc = "save_parsed" \/ ReturnedResult

\* C27: the steps are ordered OCR, key parsing, evaluation, result parsing;
\* when evaluate_answers returns False, parse_llama_results is never called
\* and the result has status 'failed', evaluation {}, total_score 0 and
\* max_score the sum of the key's marks; when it returns True,
\* parse_llama_results is called after it and the status is 'success'
C27_EvaluationDecides ==
    /\ StepsInOrder
    /\ (ResultAssembled /\ ~processing.eval_success) =>
           /\ Evaluated
           /\ ~processing.parsed
           /\ processing.result.status = "failed"
           /\ processing.result.evaluation = <<>>
           /\ processing.result.total_score = Zero
           /\ processing.result.max_score = SumMarks(processing.question_key)
    /\ (ResultAssembled /\ processing.eval_success) =>
           /\ processing.parsed
           /\ processing.trace = StepOrder
           /\ processing.result.status = "success"

\* a call has returned its result dict after evaluate_answers returned False
\* for a key that has marks
C27_Witness ==
    /\ ReturnedResult
    /\ Evaluated
    /\ ~processing.eval_success
    /\ processing.result.max_score > 0

\* C28: process_submission never raises, and every dict it returns has a
\* 'status' of 'success' or 'failed', with an 'error' when a step has thrown
C28_NeverRaises ==
    /\ processing.pc # "raised"
    /\ processing.pc = "returned" =>
           /\ "status" \in processing.result.keys
           /\ processing.result.status \in {"success", "failed"}
           /\ ~ReturnedResult =>
                  /\ "error" \in processing.result.keys
                  /\ processing.result.status = "failed"

\* C29: all files saved by one call carry the same submission id
C29_OneSubmissionId ==
    \A f, g \in processing.files : f.id = g.id

-----------------------------------------------------------------------------
(* evaluation_agent_mistral.evaluate_answers: the two formatted lists *)

\* the questions a key may hold and the answers a student may have given
KeyPool ==
    <<[k |-> <<"Q", "1">>, v |-> KeyEntry(1)],
      [k |-> <<"Q", "2">>, v |-> KeyEntry(0)],
      [k |-> <<"Q", "1", "0">>, v |-> KeyEntry(5)]>>

AnswerPool ==
    <<[k |-> <<"2">>, v |-> <<"4">>],
      [k |-> <<"1", "0">>, v |-> <<>>],
      [k |-> <<"0", "2">>, v |-> <<"x", "y">>]>>

\* the entries of pool that mask keeps, in the order of pool
Pick(pool, mask) ==
    LET Kept(x) == x.keep
        marked  == SelectSeq([j \in 1..Len(pool) |-> [e |-> pool[j], keep |-> mask[j]]],
                             Kept)
    IN  [j \in 1..Len(marked) |-> marked[j].e]

\* a sort key that does not order the numbers
SortKeyUnordered(x) == 999

\* key=lambda x: int(x) if x.isdigit() else 999
SortKey(x) ==
    IF x # <<>> /\ \A j \in 1..Len(x) : x[j] \in Digit THEN Value(x) ELSE 999

\* sorted(all_question_nums, key=...): ascending in the sort key; numbers with
\* equal sort keys stay in the iteration order of the set, which is any order
SortedOrders(S) ==
    {order \in Orders(S) :
        \A a, b \in 1..Len(order) : a < b => SortKey(order[a]) <= SortKey(order[b])}

\* "[Question not found in key]"
TextNotInKey == <<"[", "Q", "u", "e", "s", "t", "i", "o", "n", " ", "n", "o", "t", " ", "f", "o", "u", "n", "d", " ", "i", "n", " ", "k", "e", "y", "]">>
\* "[No answer provided]"
TextNoAnswer == <<"[", "N", "o", " ", "a", "n", "s", "w", "e", "r", " ", "p", "r", "o", "v", "i", "d", "e", "d", "]">>

\* the entry of formatted_questions for the number q_num
FormatQuestion(q_num, question_key) ==
    LET q_key  == <<"Q">> \o q_num
        q_data == Get(question_key, q_key, KeyEntry(0))
    IN  IF q_key \in Keys(question_key)
        THEN q_key \o <<":", " ">> \o q_data.question
             \o (IF q_data.ideal_answer # <<>>
                 THEN <<"\n">> \o <<"I", "d", "e", "a", "l", " ", "A", "n", "s", "w", "e", "r", ":", " ">> \o q_data.ideal_answer
                 ELSE <<>>)
             \o (IF q_data.marks # 0
                 THEN <<"\n">> \o <<"M", "a", "r", "k", "s", ":", " ">> \o Str(q_data.marks)
                 ELSE <<>>)
        ELSE q_key \o <<":", " ">> \o TextNotInKey

\* the entry of formatted_answers for the number q_num
FormatAnswer(q_num, answers) ==
    <<"Q">> \o q_num \o <<":", " ">>
    \o (IF q_num \in Keys(answers) THEN Get(answers, q_num, <<>>) ELSE TextNoAnswer)

InitEvaluate ==
    /\ BackgroundIdle
    /\ uploaded_files = <<>>
    /\ http_response = NotCalled
    /\ key_parse = NotCalled
    /\ result_parse = NotCalled
    /\ processing = NotCalled
    /\ \E key_mask \in [1..Len(KeyPool) -> BOOLEAN],
          answer_mask \in [1..Len(AnswerPool) -> BOOLEAN] :
           grading = [pc |-> "collect",
                      question_key |-> Pick(KeyPool, key_mask),
                      student_answers |-> Pick(AnswerPool, answer_mask),
                      sorted_questions |-> <<>>, index |-> 1,
                      formatted_questions |-> <<>>, formatted_answers |-> <<>>,
                      questions_text |-> <<>>, answers_text |-> <<>>]

EvaluateStep ==
    /\ BackgroundUnchanged
    /\ UNCHANGED <<uploaded_files, http_response, key_parse, result_parse, processing>>

\* all_question_nums is collected and sorted
SortQuestions ==
    /\ grading.pc = "collect"
    /\ \E order \in SortedOrders(AllQuestionNums(grading.student_answers,
                                                grading.question_key)) :
           grading' = [grading EXCEPT !.pc = "format", !.sorted_questions = order]
    /\ EvaluateStep

\* one iteration of `for q_num in sorted_questions`
FormatNext ==
    /\ grading.pc = "format"
    /\ grading.index <= Len(grading.sorted_questions)
    /\ grading' =
           [grading EXCEPT
               !.index = @ + 1,
               !.formatted_questions =
                   Append(@, FormatQuestion(grading.sorted_questions[grading.index],
                                            grading.question_key)),
               !.formatted_answers =
                   Append(@, FormatAnswer(grading.sorted_questions[grading.index],
                                          grading.student_answers))]
    /\ EvaluateStep

\* the two lists are joined and handed to evaluate_all_answers_comprehensive
JoinTexts ==
    /\ grading.pc = "format"
    /\ grading.index > Len(grading.sorted_questions)
    /\ grading' = [grading EXCEPT
                      !.pc = "done",
                      !.questions_text = Join(grading.formatted_questions, <<"\n", "\n">>),
                      !.answers_text = Join(grading.formatted_answers, <<"\n", "\n">>)]
    /\ EvaluateStep

NextEvaluate ==
    \/ SortQuestions
    \/ FormatNext
    \/ JoinTexts

SpecEvaluate == InitEvaluate /\ [][NextEvaluate]_vars

\* the number an entry 'Q<n>: ...' is about
NumberOf(formatted) ==
    SubSeq(formatted, 2, (CHOOSE p \in 1..Len(formatted) :
                              /\ formatted[p] = ":"
                              /\ \A r \in 1..(p - 1) : formatted[r] # ":") - 1)

\* C25: when evaluate_answers hands the lists to the grader, they have the
\* same length and entry for entry the same number; the numbers are, once
\* each, those of the key (without 'Q') and of the student answers, in
\* ascending numeric order; the answer of number n is the student's answer n
\* or '[No answer provided]', and the question is the key's 'Q<n>' or
\* '[Question not found in key]'
C25_EveryQuestionOnce ==
    grading.pc = "done" =>
        LET questions == grading.formatted_questions
            answers   == grading.formatted_answers
            nums      == {QuestionNumber(k) : k \in Keys(grading.question_key)}
                             \cup Keys(grading.student_answers)
        IN  /\ Len(questions) = Len(answers)
            /\ Len(questions) = Cardinality(nums)
            /\ {NumberOf(questions[j]) : j \in 1..Len(questions)} = nums
            /\ \A j \in 1..Len(questions) :
                   LET n == NumberOf(questions[j])
                   IN  /\ NumberOf(answers[j]) = n
                       /\ answers[j] =
                              <<"Q">> \o n \o <<":", " ">>
                              \o (IF n \in Keys(grading.student_answers)
                                  THEN Get(grading.student_answers, n, <<>>)
                                  ELSE TextNoAnswer)
                       /\ IF (<<"Q">> \o n) \in Keys(grading.question_key)
                          THEN StartsWith(questions[j],
                                          <<"Q">> \o n \o <<":", " ">>
                                          \o Get(grading.question_key, <<"Q">> \o n,
                                                 KeyEntry(0)).question)
                          ELSE questions[j] = <<"Q">> \o n \o <<":", " ">> \o TextNotInKey
            /\ \A a, b \in 1..Len(questions) :
                   a < b => Value(NumberOf(questions[a])) <= Value(NumberOf(questions[b]))
            /\ grading.questions_text = Join(questions, <<"\n", "\n">>)
            /\ grading.answers_text = Join(answers, <<"\n", "\n">>)

\* the lists are handed over with question 2 before question 10, a question
\* of the key without an answer and an answer without a question of the key
C25_Witness ==
    /\ grading.pc = "done"
    /\ Len(grading.formatted_questions) >= 3
    /\ \E a, b \in 1..Len(grading.formatted_questions) :
           /\ a < b
           /\ NumberOf(grading.formatted_questions[a]) = <<"2">>
           /\ NumberOf(grading.formatted_questions[b]) = <<"1", "0">>
    /\ \E j \in 1..Len(grading.formatted_answers) :
           grading.formatted_answers[j] = <<"Q", "1", ":", " ">> \o TextNoAnswer
    /\ \E j \in 1..Len(grading.formatted_questions) :
           grading.formatted_questions[j] = <<"Q", "0", "2", ":", " ">> \o TextNotInKey

-----------------------------------------------------------------------------
(* parser_agent.parse_question_text *)

\* longest question key, in lines, of the exhaustively enumerated keys
MaxKeyLines == 3

\* question_pattern.match(line):
\* ^(?:Q(?:uestion)?\s*)?(\d+)\.?\s*(.*)$ with re.IGNORECASE
QuestionPattern(line) ==
    LET afterWord == IF LiteralAt(line, 1, <<"q", "u", "e", "s", "t", "i", "o", "n">>) THEN 9
                     ELSE IF LiteralAt(line, 1, <<"q">>) THEN 2
                     ELSE 1
        digits    == IF afterWord = 1 THEN 1 ELSE SkipWhile(line, afterWord, Whitespace)
        afterNum  == SkipWhile(line, digits, Digit)
        afterDot  == IF afterNum <= Len(line) /\ line[afterNum] = "."
                     THEN afterNum + 1 ELSE afterNum
        rest      == SkipWhile(line, afterDot, Whitespace)
    IN  [matched |-> afterNum > digits,
         group1  |-> SubSeq(line, digits, afterNum - 1),
         group2  |-> SubSeq(line, rest, Len(line))]

\* (\d+)\s*marks? matched at position p
MarksAt(line, p) ==
    /\ p <= Len(line)
    /\ line[p] \in Digit
    /\ LiteralAt(line, SkipWhile(line, SkipWhile(line, p, Digit), Whitespace),
                 <<"m", "a", "r", "k">>)

\* marks_pattern.search(line): the leftmost match
MarksPattern(line) ==
    LET starts == {p \in 1..Len(line) : MarksAt(line, p)}
        p      == CHOOSE x \in starts : \A y \in starts : x <= y
    IN  IF starts = {} THEN [matched |-> FALSE, group1 |-> <<>>]
        ELSE [matched |-> TRUE,
              group1  |-> SubSeq(line, p, SkipWhile(line, p, Digit) - 1)]

\* current_data of a new question
NewQuestion(text) == [question |-> Strip(text), ideal_answer |-> <<>>, marks |-> 1]

\* `if current_question and current_data: questions[current_question] = ...`
SaveQuestion(frame) ==
    IF frame.current_question # None
    THEN DictSet(frame.questions, frame.current_question, frame.current_data)
    ELSE frame.questions

\* one iteration of `for line in lines`; `headers` is the history of the
\* lines that started a question
KeyLine(frame) ==
    LET line  == Strip(frame.lines[frame.index])
        match == QuestionPattern(line)
        marks == MarksPattern(line)
        next  == [frame EXCEPT !.index = @ + 1]
    IN  IF line = <<>> THEN next
        ELSE IF match.matched
        THEN [next EXCEPT !.questions = SaveQuestion(frame),
                          !.current_question = <<"Q">> \o match.group1,
                          !.current_data = NewQuestion(match.group2),
                          !.headers = Append(@, frame.index)]
        ELSE IF frame.current_question = None THEN next
        ELSE IF marks.matched
        THEN [next EXCEPT !.current_data.marks = Value(marks.group1)]
        ELSE [next EXCEPT !.current_data.ideal_answer =
                              IF @ # <<>> THEN @ \o <<" ">> \o line ELSE line]

\* "Q1. Sum", "Question 2: Why", "four", "(2 marks)", "5 marks" and " "
KeyLines ==
    {<<"Q", "1", ".", " ", "S", "u", "m">>, <<"Q", "u", "e", "s", "t", "i", "o", "n", " ", "2", ":", " ", "W", "h", "y">>, <<"f", "o", "u", "r">>,
     <<"(", "2", " ", "m", "a", "r", "k", "s", ")">>, <<"5", " ", "m", "a", "r", "k", "s">>, <<" ">>}

\* every question key of 1..MaxKeyLines such lines
KeyTexts ==
    UNION {{Join(doc, <<"\n">>) : doc \in [1..n -> KeyLines]} : n \in 1..MaxKeyLines}

InitKey ==
    /\ BackgroundIdle
    /\ uploaded_files = <<>>
    /\ http_response = NotCalled
    /\ grading = NotCalled
    /\ result_parse = NotCalled
    /\ processing = NotCalled
    /\ \E text \in KeyTexts :
           key_parse = [pc |-> "scan", lines |-> Split(text), index |-> 1,
                        current_question |-> None, current_data |-> NewQuestion(<<>>),
                        questions |-> <<>>, headers |-> <<>>]

KeyStep ==
    /\ BackgroundUnchanged
    /\ UNCHANGED <<uploaded_files, http_response, grading, result_parse, processing>>

\* the loop body for the next line
ScanKeyLine ==
    /\ key_parse.pc = "scan"
    /\ key_parse.index <= Len(key_parse.lines)
    /\ \E next \in {KeyLine(key_parse)} : key_parse' = next
    /\ KeyStep

\* the last question is saved and the questions are returned
ReturnKey ==
    /\ key_parse.pc = "scan"
    /\ key_parse.index > Len(key_parse.lines)
    /\ key_parse' = [key_parse EXCEPT !.pc = "done", !.questions = SaveQuestion(key_parse)]
    /\ KeyStep

NextKey ==
    \/ ScanKeyLine
    \/ ReturnKey

SpecKey == InitKey /\ [][NextKey]_vars

\* a '<n> mark(s)' line
IsMarksLine(raw) == MarksPattern(Strip(raw)).matched

\* the number of the last marks line among lines[from..to], or 1
RECURSIVE LastMarks(_, _, _)
LastMarks(ls, from, to) ==
    IF to < from THEN 1
    ELSE IF IsMarksLine(ls[to]) THEN Value(MarksPattern(Strip(ls[to])).group1)
    ELSE LastMarks(ls, from, to - 1)

\* the last line of the question that starts at the h-th header
LastLineOf(h) ==
    IF h < Len(key_parse.headers) THEN key_parse.headers[h + 1] - 1
    ELSE Len(key_parse.lines)

\* C26: in the returned key no marks line has started a question or is part
\* of an ideal answer, and every question's marks is the number of the last
\* marks line between its header and the next header, or 1
C26_MarksLines ==
    key_parse.pc = "done" =>
        /\ \A h \in 1..Len(key_parse.headers) :
               ~IsMarksLine(key_parse.lines[key_parse.headers[h]])
        /\ \A h \in 1..Len(key_parse.headers) :
               LET q_num == <<"Q">> \o QuestionPattern(
                                Strip(key_parse.lines[key_parse.headers[h]])).group1
                   entry == Get(key_parse.questions, q_num, NewQuestion(<<>>))
                   later == \E g \in (h + 1)..Len(key_parse.headers) :
                                QuestionPattern(Strip(key_parse.lines[
                                    key_parse.headers[g]])).group1
                                = SubSeq(q_num, 2, Len(q_num))
               IN  ~later =>
                       /\ entry.marks = LastMarks(key_parse.lines,
                                                  key_parse.headers[h] + 1, LastLineOf(h))
                       /\ \A j \in (key_parse.headers[h] + 1)..LastLineOf(h) :
                              IsMarksLine(key_parse.lines[j]) =>
                                  ~IsSubstring(Strip(key_parse.lines[j]), entry.ideal_answer)

====
